---- MODULE Spec2Model ----
(***************************************************************************)
(* Evaluation reconciliation and aggregation pipeline of server.js:        *)
(* the multi-source reader (queryBothDatabases), the field extractor (the  *)
(* final_score / tiempo_promedio patterns), the identity unifier, the      *)
(* visibility filter and the aggregator of GET /api/dashboard.             *)
(*                                                                         *)
(* JavaScript strings are sequences of one-character strings, so that      *)
(* includes, split, toLowerCase and the regular expressions are computed   *)
(* on characters the way the engine computes them.                         *)
(***************************************************************************)
EXTENDS Integers, Sequences, FiniteSets, TLC

VARIABLES
    pc,               \* position of the request being handled
    request,          \* the inbound request: operation, parameter, route header
    routePermissions, \* const routePermissions = getRoutePermissions(req)
    db,               \* contents of the two data sources (read-only)
    query,            \* the statement queryBothDatabases is running
    results,          \* const results = [] of queryBothDatabases
    held,             \* connections handed out by each pool and not released
    allEvals,         \* const allEvals = await queryBothDatabases(...)
    allSellers,       \* const allSellers = await queryBothDatabases(...)
    computed,         \* locals of the dashboard handler kept across its second await
    error,            \* the error thrown into the handler's catch block, if any
    contacts,         \* what the running queryBothDatabases call asked of the pools
    response          \* what res.status(...).json(...) sent

vars == <<pc, request, routePermissions, db, query, results, held,
          allEvals, allSellers, computed, error, contacts, response>>

(***************************************************************************)
(* Strings                                                                 *)
(***************************************************************************)
Digits == {"0", "1", "2", "3", "4", "5", "6", "7", "8", "9"}

\* \s of the regular expressions, over the characters the model uses
WhiteSpace == {" ", "\t", "\n", "\r"}

DigitValue(c) ==
    CASE c = "0" -> 0 [] c = "1" -> 1 [] c = "2" -> 2 [] c = "3" -> 3
      [] c = "4" -> 4 [] c = "5" -> 5 [] c = "6" -> 6 [] c = "7" -> 7
      [] c = "8" -> 8 [] c = "9" -> 9

\* sub occurs in s starting at index i
MatchesAt(s, i, sub) ==
    /\ i >= 1
    /\ i + Len(sub) - 1 <= Len(s)
    /\ \A k \in 1..Len(sub) : s[i + k - 1] = sub[k]

\* String.prototype.includes
includes(s, sub) == \E i \in 1..(Len(s) + 1) : MatchesAt(s, i, sub)

\* Array.prototype.includes
arrayIncludes(arr, x) == \E i \in 1..Len(arr) : arr[i] = x

\* first index >= i of s that holds no character of set (Len(s)+1 if none)
RECURSIVE SkipWhile(_, _, _)
SkipWhile(s, i, set) ==
    IF i <= Len(s) /\ s[i] \in set THEN SkipWhile(s, i + 1, set) ELSE i

Slice(s, from, to) == [k \in 1..(to - from + 1) |-> s[from + k - 1]]

\* value of a run of decimal digits
RECURSIVE DecimalValue(_)
DecimalValue(ds) ==
    IF ds = << >> THEN 0
    ELSE 10 * DecimalValue(SubSeq(ds, 1, Len(ds) - 1)) + DigitValue(ds[Len(ds)])

\* parseInt(value): skips leading white space, reads an optional sign and the
\* longest run of digits, ignores whatever follows; NaN when there is no digit
NotANumber == [nan |-> TRUE, num |-> 0]

Number(n) == [nan |-> FALSE, num |-> n]

digitRun(value, from, to) ==
    IF to = from THEN NotANumber ELSE Number(DecimalValue(Slice(value, from, to - 1)))

digitsAt(value, j) == digitRun(value, j, SkipWhile(value, j, Digits))

negated(n) == IF n.nan THEN n ELSE Number(0 - n.num)

signedAt(value, i) ==
    IF i <= Len(value) /\ value[i] = "-" THEN negated(digitsAt(value, i + 1))
    ELSE IF i <= Len(value) /\ value[i] = "+" THEN digitsAt(value, i + 1)
    ELSE digitsAt(value, i)

parseInt(value) == signedAt(value, SkipWhile(value, 1, WhiteSpace))

\* String.prototype.split(sep) for a one-character separator
RECURSIVE SplitFrom(_, _, _, _)
SplitFrom(s, i, start, sep) ==
    IF i > Len(s) THEN << Slice(s, start, Len(s)) >>
    ELSE IF s[i] = sep
         THEN << Slice(s, start, i - 1) >> \o SplitFrom(s, i + 1, i + 1, sep)
         ELSE SplitFrom(s, i + 1, start, sep)

split(s, sep) == SplitFrom(s, 1, 1, sep)

LowerOf(c) ==
    CASE c = "A" -> "a" [] c = "B" -> "b" [] c = "C" -> "c" [] c = "D" -> "d"
      [] c = "E" -> "e" [] c = "F" -> "f" [] c = "G" -> "g" [] c = "H" -> "h"
      [] c = "I" -> "i" [] c = "J" -> "j" [] c = "K" -> "k" [] c = "L" -> "l"
      [] c = "M" -> "m" [] c = "N" -> "n" [] c = "O" -> "o" [] c = "P" -> "p"
      [] c = "Q" -> "q" [] c = "R" -> "r" [] c = "S" -> "s" [] c = "T" -> "t"
      [] c = "U" -> "u" [] c = "V" -> "v" [] c = "W" -> "w" [] c = "X" -> "x"
      [] c = "Y" -> "y" [] c = "Z" -> "z" [] c = "Í" -> "í" [] c = "Ñ" -> "ñ"
      [] OTHER -> c

\* String.prototype.toLowerCase
toLowerCase(s) == [k \in 1..Len(s) |-> LowerOf(s[k])]

(***************************************************************************)
(* Field extractor: the patterns of the dashboard and seller handlers      *)
(***************************************************************************)
\* the text "final_score": of /"final_score":\s*(\d+)/
ScoreKey ==
    <<"\"", "f", "i", "n", "a", "l", "_", "s", "c", "o", "r", "e", "\"", ":">>

\* the text "tiempo_promedio": of /"tiempo_promedio":\s*"(\d{1,2}:\d{1,2}:\d{1,2})"/
TimeKey ==
    <<"\"", "t", "i", "e", "m", "p", "o", "_", "p", "r", "o", "m", "e",
      "d", "i", "o", "\"", ":">>

\* '"final_score": null' and '"final_score":null'
ScoreNullSpaced ==
    <<"\"", "f", "i", "n", "a", "l", "_", "s", "c", "o", "r", "e", "\"",
      ":", " ", "n", "u", "l", "l">>

ScoreNullCompact ==
    <<"\"", "f", "i", "n", "a", "l", "_", "s", "c", "o", "r", "e", "\"",
      ":", "n", "u", "l", "l">>

ZeroTime ==
    <<"0", "0", ":", "0", "0", ":", "0", "0">>

NoMatch == [found |-> FALSE, group |-> << >>]

\* the capture from index from up to index to, when it is not empty
captured(s, from, to) ==
    IF to = 0 \/ to <= from THEN NoMatch
    ELSE [found |-> TRUE, group |-> Slice(s, from, to - 1)]

\* (\d+) at index d
digitsCaptured(s, d) == captured(s, d, SkipWhile(s, d, Digits))

\* /"final_score":\s*(\d+)/ tried at index i: the capture, or NoMatch
ScoreMatchAt(calStr, i) ==
    IF ~MatchesAt(calStr, i, ScoreKey) THEN NoMatch
    ELSE digitsCaptured(calStr, SkipWhile(calStr, i + Len(ScoreKey), WhiteSpace))

\* String.prototype.match without the g flag: the leftmost match
firstMatch(m, later) == IF m.found THEN m ELSE later

RECURSIVE scoreMatchFrom(_, _)
scoreMatchFrom(calStr, i) ==
    IF i > Len(calStr) THEN NoMatch
    ELSE firstMatch(ScoreMatchAt(calStr, i), scoreMatchFrom(calStr, i + 1))

\* calStr.match(/"final_score":\s*(\d+)/)
scoreMatch(calStr) == scoreMatchFrom(calStr, 1)

\* \d{1,2} from index p to index e, followed by the character next: the
\* index after next, 0 if it does not match (or nothing matched before, p = 0)
digitsThen(s, p, e, next) ==
    IF p # 0 /\ e - p \in {1, 2} /\ e <= Len(s) /\ s[e] = next THEN e + 1 ELSE 0

TwoDigitsThen(s, p, next) ==
    IF p = 0 THEN 0 ELSE digitsThen(s, p, SkipWhile(s, p, Digits), next)

\* \d{1,2}:\d{1,2}:\d{1,2}" at index a: the index after the closing quote
quotedClockEnd(s, a) ==
    TwoDigitsThen(s, TwoDigitsThen(s, TwoDigitsThen(s, a, ":"), ":"), "\"")

clockCaptured(s, a, z) == IF z = 0 THEN NoMatch ELSE captured(s, a, z - 1)

\* "(\d{1,2}:\d{1,2}:\d{1,2})" at index q
quotedClock(s, q) ==
    IF q <= Len(s) /\ s[q] = "\"" THEN clockCaptured(s, q + 1, quotedClockEnd(s, q + 1))
    ELSE NoMatch

\* /"tiempo_promedio":\s*"(\d{1,2}:\d{1,2}:\d{1,2})"/ tried at index i
TimeMatchAt(calStr, i) ==
    IF ~MatchesAt(calStr, i, TimeKey) THEN NoMatch
    ELSE quotedClock(calStr, SkipWhile(calStr, i + Len(TimeKey), WhiteSpace))

RECURSIVE timeMatchFrom(_, _)
timeMatchFrom(calStr, i) ==
    IF i > Len(calStr) THEN NoMatch
    ELSE firstMatch(TimeMatchAt(calStr, i), timeMatchFrom(calStr, i + 1))

\* calStr.match(/"tiempo_promedio":\s*"(\d{1,2}:\d{1,2}:\d{1,2})"/)
timeMatch(calStr) == timeMatchFrom(calStr, 1)

\* parseInt(parts[0]) * 3600 + parseInt(parts[1]) * 60 + parseInt(parts[2])
secondsOf(h, m, sec) ==
    IF h.nan \/ m.nan \/ sec.nan THEN NotANumber
    ELSE Number(h.num * 3600 + m.num * 60 + sec.num)

partsToSeconds(parts) ==
    IF Len(parts) # 3 THEN Number(0)
    ELSE secondsOf(parseInt(parts[1]), parseInt(parts[2]), parseInt(parts[3]))

\* timeToSeconds(timeStr); a NaN component makes the sum NaN
timeToSeconds(timeStr) ==
    IF timeStr = << >> \/ timeStr = ZeroTime THEN Number(0)
    ELSE partsToSeconds(split(timeStr, ":"))

\* the usable-score test without its look for an explicit null
hasNumericScore(calStr) == scoreMatch(calStr).found

\* the test of the usable-score filter: no explicit null, and a numeric match
hasValidScore(calStr) ==
    IF includes(calStr, ScoreNullSpaced) \/ includes(calStr, ScoreNullCompact)
    THEN FALSE
    ELSE scoreMatch(calStr).found

\* the usable-score filter keeping every evaluation with a numeric match
validEvaluationsByMatch(evals) ==
    SelectSeq(evals, LAMBDA e : scoreMatch(e.calificacion).found)

\* filteredEvals.forEach(... evaluations.push(eval) ...)
validEvaluations(evals) == SelectSeq(evals, LAMBDA e : hasValidScore(e.calificacion))

(***************************************************************************)
(* Identity unifier and visibility filter                                  *)
(***************************************************************************)
MariaCalle ==
    <<"M", "a", "r", "í", "a", " ", "C", "a", "l", "l", "e">>

MariaIsabelCalle ==
    <<"M", "a", "r", "í", "a", " ", "I", "s", "a", "b", "e", "l", " ", "C",
      "a", "l", "l", "e">>

GeraldinCardona ==
    <<"G", "e", "r", "a", "l", "d", "i", "n", " ", "C", "a", "r", "d", "o",
      "n", "a">>

ErickPonce ==
    <<"E", "r", "i", "c", "k", " ", "P", "o", "n", "c", "e">>

CamilaMunoz ==
    <<"C", "a", "m", "i", "l", "a", " ", "M", "u", "ñ", "o", "z">>

MariaCamilaMunoz ==
    <<"M", "a", "r", "í", "a", " ", "C", "a", "m", "i", "l", "a", " ", "M",
      "u", "ñ", "o", "z">>

\* own keys of the SELLER_UNIFICATION object literal
SELLER_UNIFICATION ==
    (MariaIsabelCalle :> MariaCalle) @@ (MariaCamilaMunoz :> CamilaMunoz)

\* properties every object literal inherits from Object.prototype, and the
\* (truthy, non-string) values they hold, written as their string coercion
ObjectPrototype ==
    (<<"c", "o", "n", "s", "t", "r", "u", "c", "t", "o", "r">> :>
        <<"function Object() { [native code] }">>)
    @@ (<<"t", "o", "S", "t", "r", "i", "n", "g">> :>
        <<"function toString() { [native code] }">>)
    @@ (<<"v", "a", "l", "u", "e", "O", "f">> :>
        <<"function valueOf() { [native code] }">>)
    @@ (<<"_", "_", "p", "r", "o", "t", "o", "_", "_">> :> <<"[object Object]">>)

\* SELLER_UNIFICATION[sellerName] || sellerName: an own key, else a property
\* inherited from Object.prototype, else undefined and so the name itself
getUnifiedSellerName(sellerName) ==
    IF sellerName \in DOMAIN SELLER_UNIFICATION THEN SELLER_UNIFICATION[sellerName]
    ELSE IF sellerName \in DOMAIN ObjectPrototype THEN ObjectPrototype[sellerName]
    ELSE sellerName

\* ROUTE_PERMISSIONS['/Daniela Berdejo'] and ROUTE_PERMISSIONS['/Katherine López']
DanielaBerdejo ==
    [present |-> TRUE,
     allowedSellers |-> <<MariaCalle, MariaIsabelCalle, GeraldinCardona>>]

KatherineLopez ==
    [present |-> TRUE,
     allowedSellers |-> <<ErickPonce, CamilaMunoz, MariaCamilaMunoz>>]

\* ROUTE_PERMISSIONS[routePath] || null
NoPermissions == [present |-> FALSE, allowedSellers |-> << >>]

ROUTE_PERMISSIONS(routePath) ==
    CASE routePath = "/Daniela Berdejo" -> DanielaBerdejo
      [] routePath = "/Katherine López" -> KatherineLopez
      [] OTHER -> NoPermissions

\* sellerWords.filter(word => allowedWords.some(allowedWord =>
\*     allowedWord.includes(word) || word.includes(allowedWord)))
matchingWords(sellerWords, allowedWords) ==
    SelectSeq(sellerWords,
              LAMBDA word : \E k \in 1..Len(allowedWords) :
                  \/ includes(allowedWords[k], word)
                  \/ includes(word, allowedWords[k]))

\* the callback of allowedSellers.some(...): at least 2 words match
partialMatch(nombre, allowedName) ==
    LET sellerWords == split(toLowerCase(nombre), " ")
        allowedWords == split(toLowerCase(allowedName), " ")
    IN  Len(matchingWords(sellerWords, allowedWords)) >= 2

\* the callback of sellers.filter(...)
sellerAllowed(seller, permissions) ==
    LET unifiedName == getUnifiedSellerName(seller.nombre)
    IN  IF \/ arrayIncludes(permissions.allowedSellers, unifiedName)
           \/ arrayIncludes(permissions.allowedSellers, seller.nombre)
        THEN TRUE
        ELSE \E k \in 1..Len(permissions.allowedSellers) :
                 partialMatch(seller.nombre, permissions.allowedSellers[k])

\* the filter without its early return for an absent scope
filterSellersWithoutScopeTest(sellers, permissions) ==
    SelectSeq(sellers, LAMBDA seller : sellerAllowed(seller, permissions))

\* filterSellersByPermissions(sellers, permissions) (lines 1030-1063)
filterSellersByPermissions(sellers, permissions) ==
    IF ~permissions.present THEN sellers
    ELSE SelectSeq(sellers, LAMBDA seller : sellerAllowed(seller, permissions))

\* allEvals.filter(eval => routePermissions.allowedSellers.includes(eval.seller_name))
filterEvalsByPermissions(evals, permissions) ==
    IF ~permissions.present THEN evals
    ELSE SelectSeq(evals,
                   LAMBDA e : arrayIncludes(permissions.allowedSellers, e.seller_name))

(***************************************************************************)
(* Aggregator of GET /api/dashboard                                        *)
(***************************************************************************)
\* a quotient a / b of two counters, kept exact as numerator and denominator
Quotient(a, b) == [num |-> a, den |-> b]

Zero == Quotient(0, 1)

QuotientLess(x, y) == x.num * y.den < y.num * x.den

QuotientEqual(x, y) == x.num * y.den = y.num * x.den

\* const sellerStats = {}: the own keys in creation order and their values
EmptyObject == [keys |-> << >>, at |-> << >>]

\* sellerStats[key] is truthy: an own entry, or a property of Object.prototype
hasTruthy(obj, key) ==
    arrayIncludes(obj.keys, key) \/ key \in DOMAIN ObjectPrototype

IndexOfKey(obj, key) == CHOOSE k \in 1..Len(obj.keys) : obj.keys[k] = key

\* a canonical array index: such property keys are enumerated first, in
\* ascending numeric order, before the other keys in creation order
IsArrayIndex(key) ==
    /\ Len(key) >= 1
    /\ \A k \in 1..Len(key) : key[k] \in Digits
    /\ (Len(key) = 1 \/ key[1] # "0")
    /\ Len(key) <= 9   \* every such numeral is below 2^32 - 1

\* Object.values(obj)
RECURSIVE AscendingIndexKeys(_)
AscendingIndexKeys(ks) ==
    IF ks = {} THEN << >>
    ELSE LET least == CHOOSE k \in ks :
                          \A other \in ks : DecimalValue(k) <= DecimalValue(other)
         IN  << least >> \o AscendingIndexKeys(ks \ {least})

ObjectKeys(obj) ==
    AscendingIndexKeys({obj.keys[k] : k \in {j \in 1..Len(obj.keys) :
                                                 IsArrayIndex(obj.keys[j])}})
    \o SelectSeq(obj.keys, LAMBDA key : ~IsArrayIndex(key))

ObjectValues(obj) ==
    LET ks == ObjectKeys(obj)
    IN  [k \in 1..Len(ks) |-> obj.at[IndexOfKey(obj, ks[k])]]

\* const final_score = scoreMatch ? parseInt(scoreMatch[1]) : null;
\* const tiempo_promedio = timeMatch ? timeMatch[1] : null;
extracted(sm, tm) ==
    [hasScore |-> sm.found,
     final_score |-> IF sm.found THEN parseInt(sm.group) ELSE Number(0),
     hasTime |-> tm.found,
     tiempo_promedio |-> tm.group]

\* the two patterns applied to one evaluation (lines 1272-1278)
extractScores(calStr) == extracted(scoreMatch(calStr), timeMatch(calStr))

\* final_score !== null && !isNaN(final_score)
scoreCounts(x) == x.hasScore /\ ~x.final_score.nan

\* if (seconds > 0): the seconds added, 0 when nothing is added
positiveSeconds(seconds) ==
    IF ~seconds.nan /\ seconds.num > 0 THEN seconds.num ELSE 0

\* tiempo_promedio && tiempo_promedio !== '00:00:00', then seconds > 0:
\* the seconds the evaluation adds to a duration sum, 0 when it adds nothing
countedSeconds(x) ==
    IF x.hasTime /\ x.tiempo_promedio # << >> /\ x.tiempo_promedio # ZeroTime
    THEN positiveSeconds(timeToSeconds(x.tiempo_promedio))
    ELSE 0

\* sellerStats[statsKey] = { ... } without its if: an entry starts again
ensureEntryReplacing(sellerStats, statsKey, id) ==
    IF arrayIncludes(sellerStats.keys, statsKey)
    THEN [sellerStats EXCEPT !.at[IndexOfKey(sellerStats, statsKey)] =
              [id |-> id, nombre |-> statsKey, totalScore |-> 0,
               count |-> 0, totalTime |-> 0, timeCount |-> 0]]
    ELSE [keys |-> Append(sellerStats.keys, statsKey),
          at |-> Append(sellerStats.at,
                        [id |-> id, nombre |-> statsKey, totalScore |-> 0,
                         count |-> 0, totalTime |-> 0, timeCount |-> 0])]

\* if (!sellerStats[statsKey]) { sellerStats[statsKey] = { ... } }
ensureEntry(sellerStats, statsKey, id) ==
    IF hasTruthy(sellerStats, statsKey) THEN sellerStats
    ELSE [keys |-> Append(sellerStats.keys, statsKey),
          at |-> Append(sellerStats.at,
                        [id |-> id, nombre |-> statsKey, totalScore |-> 0,
                         count |-> 0, totalTime |-> 0, timeCount |-> 0])]

\* the per-seller updates with timeCount++ outside its if
addToEntryEveryTime(entry, final_score, seconds) ==
    [entry EXCEPT !.totalScore = entry.totalScore + final_score,
                  !.count = entry.count + 1,
                  !.totalTime = entry.totalTime + seconds,
                  !.timeCount = entry.timeCount + 1]

\* totalScore += final_score; count++; totalTime += seconds; timeCount++
addToEntry(entry, final_score, seconds) ==
    [entry EXCEPT !.totalScore = entry.totalScore + final_score,
                  !.count = entry.count + 1,
                  !.totalTime = entry.totalTime + seconds,
                  !.timeCount = entry.timeCount + (IF seconds > 0 THEN 1 ELSE 0)]

addAt(sellerStats, k, final_score, seconds) ==
    [sellerStats EXCEPT !.at[k] = addToEntry(sellerStats.at[k], final_score, seconds)]

\* the writes to sellerStats[statsKey]; they land on the inherited object
\* when statsKey is not an own key
addToStats(sellerStats, statsKey, final_score, seconds) ==
    IF ~arrayIncludes(sellerStats.keys, statsKey) THEN sellerStats
    ELSE addAt(sellerStats, IndexOfKey(sellerStats, statsKey), final_score, seconds)

\* the per-seller part of one turn keyed by the stored name
updateSellerStatsByStoredName(sellerStats, e, x) ==
    addToStats(ensureEntry(sellerStats, e.seller_name, e.sellers_id),
               e.seller_name, x.final_score.num, countedSeconds(x))

\* the per-seller part of one turn (lines 1303-1329)
updateSellerStats(sellerStats, e, x) ==
    addToStats(ensureEntry(sellerStats, getUnifiedSellerName(e.seller_name),
                           e.sellers_id),
               getUnifiedSellerName(e.seller_name),
               x.final_score.num, countedSeconds(x))

InitialTotals ==
    [totalLeads |-> 0, totalResponseTime |-> 0, totalScore |-> 0,
     validTimeCount |-> 0, sellerStats |-> EmptyObject]

\* the global part of one turn with validTimeCount++ outside its if
addToTotalsEveryTime(acc, final_score, seconds, sellerStats) ==
    [totalLeads |-> acc.totalLeads + 1,
     totalScore |-> acc.totalScore + final_score,
     totalResponseTime |-> acc.totalResponseTime + seconds,
     validTimeCount |-> acc.validTimeCount + 1,
     sellerStats |-> sellerStats]

\* the global part of one turn (lines 1286-1297)
addToTotals(acc, final_score, seconds, sellerStats) ==
    [totalLeads |-> acc.totalLeads + 1,
     totalScore |-> acc.totalScore + final_score,
     totalResponseTime |-> acc.totalResponseTime + seconds,
     validTimeCount |-> acc.validTimeCount + (IF seconds > 0 THEN 1 ELSE 0),
     sellerStats |-> sellerStats]

aggregateExtracted(acc, e, x) ==
    IF scoreCounts(x)
    THEN addToTotals(acc, x.final_score.num, countedSeconds(x),
                     updateSellerStats(acc.sellerStats, e, x))
    ELSE acc

\* one turn of evaluations.forEach (lines 1270-1333)
aggregateOne(acc, e) == aggregateExtracted(acc, e, extractScores(e.calificacion))

RECURSIVE aggregateFrom(_, _, _)
aggregateFrom(acc, evaluations, k) ==
    IF k > Len(evaluations) THEN acc
    ELSE aggregateFrom(aggregateOne(acc, evaluations[k]), evaluations, k + 1)

aggregate(evaluations) == aggregateFrom(InitialTotals, evaluations, 1)

\* the .map(...) before the sort (lines 1345-1349)
withAverages(seller) ==
    [id |-> seller.id, nombre |-> seller.nombre,
     totalScore |-> seller.totalScore, count |-> seller.count,
     totalTime |-> seller.totalTime, timeCount |-> seller.timeCount,
     avgScore |-> IF seller.count > 0
                  THEN Quotient(seller.totalScore, seller.count) ELSE Zero,
     avgTime |-> IF seller.timeCount > 0
                 THEN Quotient(seller.totalTime, seller.timeCount) ELSE Zero]

\* the comparator with its operands exchanged: a.avgScore - b.avgScore
lowerAvgScore(a, b) == QuotientLess(a.avgScore, b.avgScore)

\* (a, b) => b.avgScore - a.avgScore is negative: a is ordered before b
higherAvgScore(a, b) == QuotientLess(b.avgScore, a.avgScore)

\* Array.prototype.sort is stable: an element goes before the first element
\* the comparator orders after it, and so after every element equal to it
RECURSIVE InsertByAvgScore(_, _)
InsertByAvgScore(sorted, x) ==
    IF sorted = << >> THEN << x >>
    ELSE IF higherAvgScore(x, Head(sorted)) THEN << x >> \o sorted
         ELSE << Head(sorted) >> \o InsertByAvgScore(Tail(sorted), x)

RECURSIVE SortByAvgScore(_)
SortByAvgScore(arr) ==
    IF arr = << >> THEN << >>
    ELSE InsertByAvgScore(SortByAvgScore(SubSeq(arr, 1, Len(arr) - 1)),
                          arr[Len(arr)])

mapWithAverages(values) == [k \in 1..Len(values) |-> withAverages(values[k])]

\* Object.values(sellerStats).map(...).sort(...)
topSellersOf(sellerStats) == SortByAvgScore(mapWithAverages(ObjectValues(sellerStats)))

\* a.localeCompare(b) of two dates written alike (YYYY-MM-DD): the sign
CharRank(c) == IF c \in Digits THEN DigitValue(c) + 1 ELSE 0

RECURSIVE CompareFrom(_, _, _)
CompareFrom(a, b, k) ==
    IF k > Len(a) /\ k > Len(b) THEN 0
    ELSE IF k > Len(a) THEN -1
    ELSE IF k > Len(b) THEN 1
    ELSE IF CharRank(a[k]) < CharRank(b[k]) THEN -1
    ELSE IF CharRank(a[k]) > CharRank(b[k]) THEN 1
    ELSE CompareFrom(a, b, k + 1)

localeCompare(a, b) == CompareFrom(a, b, 1)

\* (a, b) => b.fecha.localeCompare(a.fecha) is negative: a is ordered before b
newerFirst(a, b) == localeCompare(b.fecha, a.fecha) < 0

RECURSIVE InsertByFecha(_, _)
InsertByFecha(sorted, x) ==
    IF sorted = << >> THEN << x >>
    ELSE IF newerFirst(x, Head(sorted)) THEN << x >> \o sorted
         ELSE << Head(sorted) >> \o InsertByFecha(Tail(sorted), x)

RECURSIVE SortByFecha(_)
SortByFecha(arr) ==
    IF arr = << >> THEN << >>
    ELSE InsertByFecha(SortByFecha(SubSeq(arr, 1, Len(arr) - 1)), arr[Len(arr)])

\* the mapped entries left in the order of the evaluations
leadsListUnsorted(evaluations) ==
    [k \in 1..Len(evaluations) |->
        [lead_id |-> evaluations[k].lead_id,
         seller_name |-> evaluations[k].seller_name,
         sellers_id |-> evaluations[k].sellers_id,
         fecha |-> evaluations[k].fecha,
         origen_bd |-> evaluations[k].origen_bd]]

\* evaluations.map(...).sort(...) (lines 1395-1401)
leadsListOf(evaluations) ==
    SortByFecha([k \in 1..Len(evaluations) |->
                    [lead_id |-> evaluations[k].lead_id,
                     seller_name |-> evaluations[k].seller_name,
                     sellers_id |-> evaluations[k].sellers_id,
                     fecha |-> evaluations[k].fecha,
                     origen_bd |-> evaluations[k].origen_bd]])

\* if (!unifiedSellersMap.has(unifiedName)) unifiedSellersMap.set(...)
setIfAbsent(map, unifiedName, id) ==
    IF \E j \in 1..Len(map) : map[j].nombre = unifiedName THEN map
    ELSE Append(map, [id |-> id, nombre |-> unifiedName])

\* unifiedSellersMap: the first seller of each unified name (lines 1366-1377)
RECURSIVE unifySellersFrom(_, _, _)
unifySellersFrom(map, filteredSellers, k) ==
    IF k > Len(filteredSellers) THEN map
    ELSE unifySellersFrom(
             setIfAbsent(map, getUnifiedSellerName(filteredSellers[k].nombre),
                         filteredSellers[k].id),
             filteredSellers, k + 1)

unifiedSellers(filteredSellers) == unifySellersFrom(<< >>, filteredSellers, 1)

\* what the handler holds when it issues its second query
statsOf(filteredEvals, evaluations, totals) ==
    [filteredEvals |-> filteredEvals,
     filteredSellers |-> << >>,
     evaluations |-> evaluations,
     totalLeads |-> totals.totalLeads,
     totalScore |-> totals.totalScore,
     totalResponseTime |-> totals.totalResponseTime,
     validTimeCount |-> totals.validTimeCount,
     sellerStats |-> totals.sellerStats,
     topSellers |-> topSellersOf(totals.sellerStats)]

aggregated(filteredEvals, evaluations) ==
    statsOf(filteredEvals, evaluations, aggregate(evaluations))

usableOf(filteredEvals) == aggregated(filteredEvals, validEvaluations(filteredEvals))

\* the part of the dashboard handler between its two queries (lines 1221-1350)
dashboardStats(evals, permissions) ==
    usableOf(filterEvalsByPermissions(evals, permissions))

\* const filteredSellers = filterSellersByPermissions(allSellers, routePermissions)
withFilteredSellers(c, sellers, permissions) ==
    [c EXCEPT !.filteredSellers = filterSellersByPermissions(sellers, permissions)]

\* the body of res.json({ stats, topSellers, sellers, leads }) (lines 1405-1414)
dashboardBody(c) ==
    [stats |-> [totalLeads |-> c.totalLeads,
                avgResponseTime |-> IF c.validTimeCount > 0
                                    THEN Quotient(c.totalResponseTime, c.validTimeCount)
                                    ELSE Zero,
                avgScore |-> IF c.totalLeads > 0
                             THEN Quotient(c.totalScore, c.totalLeads)
                             ELSE Zero],
     topSellers |-> c.topSellers,
     sellers |-> unifiedSellers(c.filteredSellers),
     leads |-> leadsListOf(c.evaluations)]

NoComputed ==
    [filteredEvals |-> << >>, filteredSellers |-> << >>, evaluations |-> << >>, totalLeads |-> 0, totalScore |-> 0,
     totalResponseTime |-> 0, validTimeCount |-> 0,
     sellerStats |-> EmptyObject, topSellers |-> << >>]

NoResponse == [status |-> 0, body |-> << >>]

(***************************************************************************)
(* Data sources                                                            *)
(***************************************************************************)
\* calificacion texts as the upstream evaluator writes them
\* score 85 with a zero duration
ScoreZeroTime ==
    <<"{", "\"", "f", "i", "n", "a", "l", "_", "s", "c", "o", "r", "e",
      "\"", ":", " ", "8", "5", ",", " ", "\"", "t", "i", "e", "m", "p",
      "o", "_", "p", "r", "o", "m", "e", "d", "i", "o", "\"", ":", " ",
      "\"", "0", "0", ":", "0", "0", ":", "0", "0", "\"", "}">>

\* explicit null score, unquoted duration
NullScoreBareTime ==
    <<"{", "\"", "f", "i", "n", "a", "l", "_", "s", "c", "o", "r", "e",
      "\"", ":", " ", "n", "u", "l", "l", ",", " ", "\"", "t", "i", "e",
      "m", "p", "o", "_", "p", "r", "o", "m", "e", "d", "i", "o", "\"",
      ":", " ", "0", "2", ":", "1", "5", ":", "3", "0", "}">>

\* compact: score 60, duration 02:15:30
CompactScoreTime ==
    <<"{", "\"", "f", "i", "n", "a", "l", "_", "s", "c", "o", "r", "e",
      "\"", ":", "6", "0", ",", "\"", "t", "i", "e", "m", "p", "o", "_",
      "p", "r", "o", "m", "e", "d", "i", "o", "\"", ":", "\"", "0", "2",
      ":", "1", "5", ":", "3", "0", "\"", "}">>

\* score 90, no duration
ScoreOnly ==
    <<"{", "\"", "f", "i", "n", "a", "l", "_", "s", "c", "o", "r", "e",
      "\"", ":", " ", "9", "0", "}">>

\* explicit null for the key, a numeric match further on
NullThenNumber ==
    <<"{", "\"", "f", "i", "n", "a", "l", "_", "s", "c", "o", "r", "e",
      "\"", ":", "n", "u", "l", "l", ",", "\"", "p", "r", "e", "v", "i",
      "o", "\"", ":", "{", "\"", "f", "i", "n", "a", "l", "_", "s", "c",
      "o", "r", "e", "\"", ":", " ", "7", "0", ",", "\"", "t", "i", "e",
      "m", "p", "o", "_", "p", "r", "o", "m", "e", "d", "i", "o", "\"",
      ":", "\"", "0", ":", "1", ":", "5", "\"", "}", "}">>

\* score 85, duration of one-digit components
ScoreShortTime ==
    <<"{", "\"", "f", "i", "n", "a", "l", "_", "s", "c", "o", "r", "e",
      "\"", ":", " ", "8", "5", ",", " ", "\"", "t", "i", "e", "m", "p",
      "o", "_", "p", "r", "o", "m", "e", "d", "i", "o", "\"", ":", " ",
      "\"", "0", ":", "1", ":", "5", "\"", "}">>

\* a negative score: no digits follow the colon
NegativeScore ==
    <<"{", "\"", "f", "i", "n", "a", "l", "_", "s", "c", "o", "r", "e",
      "\"", ":", " ", "-", "5", ",", " ", "\"", "t", "i", "e", "m", "p",
      "o", "_", "p", "r", "o", "m", "e", "d", "i", "o", "\"", ":", " ",
      "\"", "0", "0", ":", "1", "0", ":", "0", "0", "\"", "}">>

\* score 85 followed by a trailing comma: no repair makes it parse
TrailingComma ==
    <<"{", "\"", "f", "i", "n", "a", "l", "_", "s", "c", "o", "r", "e",
      "\"", ":", " ", "8", "5", ",", "}">>

\* a seller whose stored name is a canonical array index
NumericName == <<"9">>

\* the labels queryBothDatabases gives (lines 985 and 1003)
DistritoCafetero == "Distrito Cafetero"

BigCenter == "Big Center"

\* SELECT e.*, s.nombre as seller_name FROM evaluations e JOIN sellers s
\* ON e.sellers_id = s.id: the evaluation with the name of its seller
joined(source, e) ==
    LET s == CHOOSE s \in {source.sellers[k] : k \in 1..Len(source.sellers)} :
                 s.id = e.sellers_id
    IN  [lead_id |-> e.lead_id, sellers_id |-> e.sellers_id,
         seller_name |-> s.nombre, fecha |-> e.fecha,
         calificacion |-> e.calificacion]

hasSeller(source, e) == \E k \in 1..Len(source.sellers) : source.sellers[k].id = e.sellers_id

joinedEvaluations(source) ==
    LET rows == SelectSeq(source.evaluations, LAMBDA e : hasSeller(source, e))
    IN  [k \in 1..Len(rows) |-> joined(source, rows[k])]

\* the four statements of the handlers, run on one source
EvalsQuery == [kind |-> "evals", param |-> << >>]

SellersQuery == [kind |-> "sellers", param |-> << >>]

SellerEvalsQuery(sellerId) == [kind |-> "sellerEvals", param |-> sellerId]

EvaluationQuery(leadId) == [kind |-> "evaluation", param |-> leadId]

NoQuery == [kind |-> "none", param |-> << >>]

execute(source, q) ==
    CASE q.kind = "evals" ->
            \* WHERE e.calificacion IS NOT NULL AND e.calificacion != ''
            SelectSeq(joinedEvaluations(source), LAMBDA e : e.calificacion # << >>)
      [] q.kind = "sellerEvals" ->
            \* WHERE e.sellers_id = ? AND e.calificacion IS NOT NULL AND ...
            SelectSeq(joinedEvaluations(source),
                      LAMBDA e : e.sellers_id = q.param /\ e.calificacion # << >>)
      [] q.kind = "evaluation" ->
            \* WHERE e.lead_id = ? LIMIT 1
            LET hit == SelectSeq(joinedEvaluations(source),
                                 LAMBDA e : e.lead_id = q.param)
            IN  IF hit = << >> THEN << >> ELSE << Head(hit) >>
      [] q.kind = "sellers" ->
            \* SELECT id, nombre FROM sellers ORDER BY nombre
            source.sellers
      [] OTHER -> << >>

\* every row labelled as a row of the primary source
withPrimaryOrigin(rows, label) ==
    [k \in 1..Len(rows) |->
        [f \in DOMAIN rows[k] \cup {"origen_bd"} |->
            IF f = "origen_bd" THEN DistritoCafetero ELSE rows[k][f]]]

\* rows.map(row => ({ ...row, origen_bd: label }))
withOrigin(rows, label) ==
    [k \in 1..Len(rows) |->
        [f \in DOMAIN rows[k] \cup {"origen_bd"} |->
            IF f = "origen_bd" THEN label ELSE rows[k][f]]]

(***************************************************************************)
(* Validation and error replies                                            *)
(***************************************************************************)
\* 'Seller ID debe ser un número entero positivo'
SellerIdInvalid ==
    <<"S", "e", "l", "l", "e", "r", " ", "I", "D", " ", "d", "e", "b", "e",
      " ", "s", "e", "r", " ", "u", "n", " ", "n", "ú", "m", "e", "r", "o",
      " ", "e", "n", "t", "e", "r", "o", " ", "p", "o", "s", "i", "t", "i",
      "v", "o">>

\* 'Lead ID es requerido'
LeadIdRequired ==
    <<"L", "e", "a", "d", " ", "I", "D", " ", "e", "s", " ", "r", "e", "q",
      "u", "e", "r", "i", "d", "o">>

\* 'Lead ID contiene caracteres no válidos o es demasiado largo'
LeadIdInvalid ==
    <<"L", "e", "a", "d", " ", "I", "D", " ", "c", "o", "n", "t", "i", "e",
      "n", "e", " ", "c", "a", "r", "a", "c", "t", "e", "r", "e", "s", " ",
      "n", "o", " ", "v", "á", "l", "i", "d", "o", "s", " ", "o", " ", "e",
      "s", " ", "d", "e", "m", "a", "s", "i", "a", "d", "o", " ", "l", "a",
      "r", "g", "o">>

\* the fragments the catch blocks look for in error.message
PositiveIntegerText ==
    <<"d", "e", "b", "e", " ", "s", "e", "r", " ", "u", "n", " ", "n", "ú",
      "m", "e", "r", "o", " ", "e", "n", "t", "e", "r", "o", " ", "p", "o",
      "s", "i", "t", "i", "v", "o">>

InvalidCharsText ==
    <<"c", "a", "r", "a", "c", "t", "e", "r", "e", "s", " ", "n", "o", " ",
      "v", "á", "l", "i", "d", "o", "s">>

LeadIdText ==
    <<"L", "e", "a", "d", " ", "I", "D">>

RequiredText ==
    <<"e", "s", " ", "r", "e", "q", "u", "e", "r", "i", "d", "o">>

\* what the driver reports when a pool cannot connect, and when a statement fails
ConnectError ==
    <<"c", "o", "n", "n", "e", "c", "t", " ", "E", "C", "O", "N", "N", "R",
      "E", "F", "U", "S", "E", "D">>

ExecuteError ==
    <<"Q", "u", "e", "r", "y", " ", "e", "x", "e", "c", "u", "t", "i", "o",
      "n", " ", "w", "a", "s", " ", "i", "n", "t", "e", "r", "r", "u", "p",
      "t", "e", "d">>

NoError == << >>

\* validatePositiveInteger(value, 'Seller ID'): the number, or the thrown message
validatePositiveInteger(value) ==
    LET num == parseInt(value)
    IN  IF num.nan \/ num.num <= 0
        THEN [ok |-> FALSE, num |-> 0, message |-> SellerIdInvalid]
        ELSE [ok |-> TRUE, num |-> num.num, message |-> NoError]

LeadIdChars ==
    {"a", "b", "c", "d", "e", "f", "g", "h", "i", "j", "k", "l", "m", "n", "o",
     "p", "q", "r", "s", "t", "u", "v", "w", "x", "y", "z",
     "A", "B", "C", "D", "E", "F", "G", "H", "I", "J", "K", "L", "M", "N", "O",
     "P", "Q", "R", "S", "T", "U", "V", "W", "X", "Y", "Z",
     "-", "_", "."} \cup Digits

\* the validation without the upper bound of the quantifier
validateLeadIdAnyLength(leadId) ==
    IF leadId = << >>
    THEN [ok |-> FALSE, leadId |-> << >>, message |-> LeadIdRequired]
    ELSE IF ~(\A k \in 1..Len(leadId) : leadId[k] \in LeadIdChars)
    THEN [ok |-> FALSE, leadId |-> << >>, message |-> LeadIdInvalid]
    ELSE [ok |-> TRUE, leadId |-> leadId, message |-> NoError]

\* validateLeadId(leadId): /^[a-zA-Z0-9\-_.]{1,100}$/, then leadId.trim()
validateLeadId(leadId) ==
    IF leadId = << >>
    THEN [ok |-> FALSE, leadId |-> << >>, message |-> LeadIdRequired]
    ELSE IF ~(Len(leadId) <= 100 /\ \A k \in 1..Len(leadId) : leadId[k] \in LeadIdChars)
    THEN [ok |-> FALSE, leadId |-> << >>, message |-> LeadIdInvalid]
    ELSE [ok |-> TRUE, leadId |-> leadId, message |-> NoError]

InternalError == [status |-> 500, body |-> [error |-> "Internal server error"]]

\* handleValidationError(error, res, operation)
handleValidationError(message) ==
    [status |-> 400,
     body |-> [error |-> "Datos de entrada no válidos", details |-> message]]

\* the catch block of each handler (lines 1415-1418, 1513-1521, 1580-1589)
catchBlock(op, message) ==
    CASE op = "seller" ->
            IF \/ includes(message, PositiveIntegerText)
               \/ includes(message, InvalidCharsText)
            THEN handleValidationError(message) ELSE InternalError
      [] op = "evaluation" ->
            IF \/ includes(message, LeadIdText)
               \/ includes(message, InvalidCharsText)
               \/ includes(message, RequiredText)
            THEN handleValidationError(message) ELSE InternalError
      [] OTHER -> InternalError

\* getUserRoute(email): routeMapping[email] || null, null written as ""
getUserRoute(email) ==
    CASE email = "daniela.berdejo@ejemplo.com" -> "/Daniela Berdejo"
      [] email = "katherine.lopez@ejemplo.com" -> "/Katherine López"
      [] OTHER -> ""

\* requireAuth without a session user
Unauthorized ==
    [status |-> 401,
     body |-> [error |-> "No autorizado", redirectToLogin |-> TRUE]]

(***************************************************************************)
(* Route scope of a request                                                *)
(***************************************************************************)
\* decodeURIComponent on the escapes that occur in the routes: %20 and the
\* two bytes of a lower-case o with acute accent; any other % is malformed
RECURSIVE decodeFrom(_, _)
decodeFrom(s, k) ==
    IF k > Len(s) THEN [ok |-> TRUE, text |-> << >>]
    ELSE IF s[k] # "%"
         THEN LET rest == decodeFrom(s, k + 1)
              IN  [ok |-> rest.ok, text |-> << s[k] >> \o rest.text]
    ELSE IF MatchesAt(s, k, <<"%", "2", "0">>)
         THEN LET rest == decodeFrom(s, k + 3)
              IN  [ok |-> rest.ok, text |-> << " " >> \o rest.text]
    ELSE IF MatchesAt(s, k, <<"%", "C", "3", "%", "B", "3">>)
         THEN LET rest == decodeFrom(s, k + 6)
              IN  [ok |-> rest.ok, text |-> << "ó" >> \o rest.text]
    ELSE [ok |-> FALSE, text |-> << >>]

decodeURIComponent(s) == decodeFrom(s, 1)

\* urlParts.slice(3).join('/')
RECURSIVE joinFrom(_, _)
joinFrom(parts, k) ==
    IF k > Len(parts) THEN << >>
    ELSE IF k = Len(parts) THEN parts[k]
    ELSE parts[k] \o << "/" >> \o joinFrom(parts, k + 1)

Daniela ==
    <<"D", "a", "n", "i", "e", "l", "a">>

Berdejo ==
    <<"B", "e", "r", "d", "e", "j", "o">>

Katherine ==
    <<"K", "a", "t", "h", "e", "r", "i", "n", "e">>

LopezAccented ==
    <<"L", "ó", "p", "e", "z">>

LopezPlain ==
    <<"L", "o", "p", "e", "z">>

URIMalformed ==
    <<"U", "R", "I", " ", "m", "a", "l", "f", "o", "r", "m", "e", "d">>

\* the route path getRoutePermissions settles on (lines 895-911);
\* ok is FALSE when decodeURIComponent throws
detectedRoute(req) ==
    IF req.xRoutePath # "" \/ req.referer = << >>
    THEN [ok |-> TRUE, routePath |-> req.xRoutePath]
    ELSE LET urlParts == split(req.referer, "/")
         IN  IF Len(urlParts) <= 3 THEN [ok |-> TRUE, routePath |-> ""]
             ELSE LET decoded == decodeURIComponent(joinFrom(urlParts, 4))
                      possibleRoute == << "/" >> \o decoded.text
                  IN  IF ~decoded.ok THEN [ok |-> FALSE, routePath |-> ""]
                      ELSE IF \/ includes(possibleRoute, Daniela)
                              \/ includes(possibleRoute, Berdejo)
                      THEN [ok |-> TRUE, routePath |-> "/Daniela Berdejo"]
                      ELSE IF \/ includes(possibleRoute, Katherine)
                              \/ includes(possibleRoute, LopezAccented)
                              \/ includes(possibleRoute, LopezPlain)
                      THEN [ok |-> TRUE, routePath |-> "/Katherine López"]
                      ELSE [ok |-> TRUE, routePath |-> ""]

\* getRoutePermissions(req)
getRoutePermissions(req) == ROUTE_PERMISSIONS(detectedRoute(req).routePath)

(***************************************************************************)
(* Payload repair (fixJsonString) and strict parsing (JSON.parse)          *)
(***************************************************************************)
WordChars ==
    {"a", "b", "c", "d", "e", "f", "g", "h", "i", "j", "k", "l", "m", "n", "o",
     "p", "q", "r", "s", "t", "u", "v", "w", "x", "y", "z",
     "A", "B", "C", "D", "E", "F", "G", "H", "I", "J", "K", "L", "M", "N", "O",
     "P", "Q", "R", "S", "T", "U", "V", "W", "X", "Y", "Z", "_"} \cup Digits

\* .replace(/\r/g, '').replace(/\n/g, '')
stripLineBreaks(s) == SelectSeq(s, LAMBDA c : c \notin {"\r", "\n"})

\* /:\s*(\d{1,2}:\d{1,2}:\d{1,2})/ tried at index i: where the capture starts
\* and the index after the match, 0 when it does not match
BareTimeAt(s, i) ==
    IF ~(i <= Len(s) /\ s[i] = ":") THEN [from |-> 0, to |-> 0]
    ELSE LET a == SkipWhile(s, i + 1, WhiteSpace)
             b == TwoDigitsThen(s, a, ":")
             c == IF b = 0 THEN 0 ELSE TwoDigitsThen(s, b, ":")
             e == IF c = 0 THEN 0 ELSE SkipWhile(s, c, Digits)
         IN  IF c = 0 \/ e = c THEN [from |-> 0, to |-> 0]
             ELSE [from |-> a, to |-> IF e - c > 2 THEN c + 2 ELSE e]

\* .replace(/:\s*(\d{1,2}:\d{1,2}:\d{1,2})/g, ': "$1"')
RECURSIVE quoteTimesFrom(_, _)
quoteTimesFrom(s, i) ==
    IF i > Len(s) THEN << >>
    ELSE LET m == BareTimeAt(s, i)
         IN  IF m.to = 0 THEN << s[i] >> \o quoteTimesFrom(s, i + 1)
             ELSE <<":", " ", "\"">> \o Slice(s, m.from, m.to - 1) \o <<"\"">>
                  \o quoteTimesFrom(s, m.to)

\* the text with its bare times left as they are
leaveTimes(s) == s

quoteTimes(s) == quoteTimesFrom(s, 1)

\* /:\s*word\b/ tried at index i: the index after the match, 0 when no match
LiteralAt(s, i, word) ==
    IF ~(i <= Len(s) /\ s[i] = ":") THEN 0
    ELSE LET a == SkipWhile(s, i + 1, WhiteSpace)
             e == a + Len(word)
         IN  IF MatchesAt(s, a, word) /\ (e > Len(s) \/ s[e] \notin WordChars)
             THEN e ELSE 0

\* .replace(/:\s*word\b/g, ': word') for word true, false or null
RECURSIVE spaceLiteralFrom(_, _, _)
spaceLiteralFrom(s, i, word) ==
    IF i > Len(s) THEN << >>
    ELSE LET e == LiteralAt(s, i, word)
         IN  IF e = 0 THEN << s[i] >> \o spaceLiteralFrom(s, i + 1, word)
             ELSE <<":", " ">> \o word \o spaceLiteralFrom(s, e, word)

spaceLiteral(s, word) == spaceLiteralFrom(s, 1, word)

\* /:\s*(\d+)([,}])/ tried at index i: start of the digits and the index
\* after the match, 0 when it does not match
NumberAt(s, i) ==
    IF ~(i <= Len(s) /\ s[i] = ":") THEN [from |-> 0, to |-> 0]
    ELSE LET a == SkipWhile(s, i + 1, WhiteSpace)
             e == SkipWhile(s, a, Digits)
         IN  IF e > a /\ e <= Len(s) /\ s[e] \in {",", "}"}
             THEN [from |-> a, to |-> e + 1] ELSE [from |-> 0, to |-> 0]

\* .replace(/:\s*(\d+)([,}])/g, ': $1$2')
RECURSIVE spaceNumbersFrom(_, _)
spaceNumbersFrom(s, i) ==
    IF i > Len(s) THEN << >>
    ELSE LET m == NumberAt(s, i)
         IN  IF m.to = 0 THEN << s[i] >> \o spaceNumbersFrom(s, i + 1)
             ELSE <<":", " ">> \o Slice(s, m.from, m.to - 1)
                  \o spaceNumbersFrom(s, m.to)

\* the replacement keeping the white space it finds after the colon
RECURSIVE spaceNumbersKeepingFrom(_, _)
spaceNumbersKeepingFrom(s, i) ==
    IF i > Len(s) THEN << >>
    ELSE IF NumberAt(s, i).to = 0
         THEN << s[i] >> \o spaceNumbersKeepingFrom(s, i + 1)
    ELSE <<":", " ">> \o Slice(s, i + 1, NumberAt(s, i).to - 1)
         \o spaceNumbersKeepingFrom(s, NumberAt(s, i).to)

spaceNumbersKeeping(s) == spaceNumbersKeepingFrom(s, 1)

spaceNumbers(s) == spaceNumbersFrom(s, 1)

TrueWord == <<"t", "r", "u", "e">>

FalseWord == <<"f", "a", "l", "s", "e">>

NullWord == <<"n", "u", "l", "l">>

fixJsonString(jsonString) ==
    IF jsonString = << >> THEN jsonString
    ELSE spaceNumbers(
             spaceLiteral(
                 spaceLiteral(
                     spaceLiteral(quoteTimes(stripLineBreaks(jsonString)), TrueWord),
                     FalseWord),
                 NullWord))

\* JSON.parse as a recogniser: each operator takes the index where a piece of
\* the grammar starts and gives the index after it, 0 when the text is not JSON
JsonWhiteSpace == {" ", "\t", "\n", "\r"}

HexDigits ==
    Digits \cup {"a", "b", "c", "d", "e", "f", "A", "B", "C", "D", "E", "F"}

\* the characters of a string literal from index i (after the opening quote)
RECURSIVE JsonStringEnd(_, _)
JsonStringEnd(s, i) ==
    IF i > Len(s) THEN 0
    ELSE IF s[i] = "\"" THEN i + 1
    ELSE IF s[i] \in {"\n", "\r", "\t"} THEN 0
    ELSE IF s[i] # "\\" THEN JsonStringEnd(s, i + 1)
    ELSE IF i + 1 > Len(s) THEN 0
    ELSE IF s[i + 1] \in {"\"", "\\", "/", "b", "f", "n", "r", "t"}
         THEN JsonStringEnd(s, i + 2)
    ELSE IF /\ s[i + 1] = "u"
            /\ i + 5 <= Len(s)
            /\ \A k \in 2..5 : s[i + k] \in HexDigits
         THEN JsonStringEnd(s, i + 6)
    ELSE 0

\* -?(0|[1-9]\d*)(\.\d+)?([eE][+-]?\d+)?
JsonNumberEnd(s, i) ==
    LET a == IF i <= Len(s) /\ s[i] = "-" THEN i + 1 ELSE i
        b == IF a <= Len(s) /\ s[a] = "0" THEN a + 1 ELSE SkipWhile(s, a, Digits)
        c == IF b <= Len(s) /\ s[b] = "." THEN SkipWhile(s, b + 1, Digits) ELSE b
        x == IF c <= Len(s) /\ s[c] \in {"e", "E"}
             THEN IF c + 1 <= Len(s) /\ s[c + 1] \in {"+", "-"} THEN c + 2 ELSE c + 1
             ELSE c
        d == IF x = c THEN c ELSE SkipWhile(s, x, Digits)
    IN  IF b = a THEN 0
        ELSE IF c = b + 1 THEN 0
        ELSE IF x # c /\ d = x THEN 0
        ELSE d

RECURSIVE JsonValueEnd(_, _), JsonMembersEnd(_, _), JsonElementsEnd(_, _)
\* a value, with the white space before it
JsonValueEnd(s, i) ==
    LET a == SkipWhile(s, i, JsonWhiteSpace)
    IN  IF a > Len(s) THEN 0
        ELSE IF s[a] = "{" THEN
            LET b == SkipWhile(s, a + 1, JsonWhiteSpace)
            IN  IF b <= Len(s) /\ s[b] = "}" THEN b + 1 ELSE JsonMembersEnd(s, b)
        ELSE IF s[a] = "[" THEN
            LET b == SkipWhile(s, a + 1, JsonWhiteSpace)
            IN  IF b <= Len(s) /\ s[b] = "]" THEN b + 1 ELSE JsonElementsEnd(s, b)
        ELSE IF s[a] = "\"" THEN JsonStringEnd(s, a + 1)
        ELSE IF MatchesAt(s, a, TrueWord) THEN a + Len(TrueWord)
        ELSE IF MatchesAt(s, a, FalseWord) THEN a + Len(FalseWord)
        ELSE IF MatchesAt(s, a, NullWord) THEN a + Len(NullWord)
        ELSE JsonNumberEnd(s, a)

\* "key" : value ( , "key" : value )* }
JsonMembersEnd(s, i) ==
    LET a == SkipWhile(s, i, JsonWhiteSpace)
        k == IF a <= Len(s) /\ s[a] = "\"" THEN JsonStringEnd(s, a + 1) ELSE 0
        c == IF k = 0 THEN 0 ELSE SkipWhile(s, k, JsonWhiteSpace)
        v == IF c = 0 \/ c > Len(s) \/ s[c] # ":" THEN 0 ELSE JsonValueEnd(s, c + 1)
        e == IF v = 0 THEN 0 ELSE SkipWhile(s, v, JsonWhiteSpace)
    IN  IF e = 0 \/ e > Len(s) THEN 0
        ELSE IF s[e] = "}" THEN e + 1
        ELSE IF s[e] = "," THEN JsonMembersEnd(s, e + 1)
        ELSE 0

\* value ( , value )* ]
JsonElementsEnd(s, i) ==
    LET v == JsonValueEnd(s, i)
        e == IF v = 0 THEN 0 ELSE SkipWhile(s, v, JsonWhiteSpace)
    IN  IF e = 0 \/ e > Len(s) THEN 0
        ELSE IF s[e] = "]" THEN e + 1
        ELSE IF s[e] = "," THEN JsonElementsEnd(s, e + 1)
        ELSE 0

\* JSON.parse(text) does not throw
parses(text) ==
    LET v == JsonValueEnd(text, 1)
    IN  v # 0 /\ SkipWhile(text, v, JsonWhiteSpace) > Len(text)

(***************************************************************************)
(* Contents of the two sources                                             *)
(***************************************************************************)
\* sellers of each source in the order of ORDER BY nombre; the numeric ids
\* are AUTO_INCREMENT keys of each source, so the same id names different
\* sellers in the two sources
MainSellers ==
    << [id |-> 3, nombre |-> NumericName],
       [id |-> 2, nombre |-> ErickPonce],
       [id |-> 1, nombre |-> MariaIsabelCalle] >>

BigSellers ==
    << [id |-> 4, nombre |-> CamilaMunoz],
       [id |-> 1, nombre |-> ErickPonce],
       [id |-> 2, nombre |-> MariaCalle] >>

Fechas ==
    << <<"2", "0", "2", "4", "-", "0", "1", "-", "0", "5">>,
       <<"2", "0", "2", "4", "-", "0", "3", "-", "1", "0">>,
       <<"2", "0", "2", "4", "-", "0", "2", "-", "2", "0">> >>

DigitChar(n) ==
    CASE n = 0 -> "0" [] n = 1 -> "1" [] n = 2 -> "2" [] n = 3 -> "3"
      [] n = 4 -> "4" [] n = 5 -> "5" [] n = 6 -> "6" [] n = 7 -> "7"
      [] n = 8 -> "8" [] n = 9 -> "9"

\* the evaluations table holding cells (seller id and calificacion) in order:
\* lead ids are the prefix and the position, dates repeat through Fechas
evaluationsTable(cells, prefix, shift) ==
    [k \in 1..Len(cells) |->
        [lead_id |-> << prefix, DigitChar(k) >>,
         sellers_id |-> cells[k].sellers_id,
         fecha |-> Fechas[((k + shift) % Len(Fechas)) + 1],
         calificacion |-> cells[k].calificacion]]

database(mainCells, bigCells, bigConfigured) ==
    [main |-> [sellers |-> MainSellers,
               evaluations |-> evaluationsTable(mainCells, "L", 0)],
     big |-> [sellers |-> BigSellers,
              evaluations |-> evaluationsTable(bigCells, "B", 1)],
     bigConfigured |-> bigConfigured]

\* most evaluations the two sources hold together
MaxEvals == 2

CalTexts ==
    {ScoreZeroTime, NullScoreBareTime, CompactScoreTime, ScoreOnly,
     NullThenNumber, ScoreShortTime, NegativeScore}

cellsOf(sellers) ==
    {[sellers_id |-> sellers[k].id, calificacion |-> t] :
        k \in 1..Len(sellers), t \in CalTexts}

(***************************************************************************)
(* The server: one request at a time through its handler                   *)
(***************************************************************************)
\* connectionLimit of dbConfig and bigCenterDbConfig
connectionLimit == 10

NoRequest ==
    [op |-> "none", param |-> << >>, xRoutePath |-> "", referer |-> << >>,
     user |-> ""]

\* the handler was entered: its locals are fresh
enter(req) ==
    /\ pc \in {"idle", "responded"}
    /\ request' = req
    /\ allEvals' = << >>
    /\ allSellers' = << >>
    /\ computed' = NoComputed
    /\ results' = << >>
    /\ contacts' = << >>
    /\ error' = NoError
    /\ UNCHANGED <<db, held>>

\* res.status(...).json(...): the request is over
reply(r) ==
    /\ response' = r
    /\ pc' = "responded"

\* await queryBothDatabases(q) begins: const results = []
call(q) ==
    /\ query' = q
    /\ pc' = "main_connect"
    /\ response' = NoResponse

\* requireAuth rejects the request, or the handler fails before its query
rejected(req, perms, r) ==
    /\ enter(req)
    /\ routePermissions' = perms
    /\ query' = NoQuery
    /\ reply(r)

\* app.get('/api/dashboard') up to its first await (lines 1204-1219)
GetDashboard(req) ==
    /\ req.op = "dashboard"
    /\ IF req.user = "" THEN rejected(req, NoPermissions, Unauthorized)
       ELSE IF ~detectedRoute(req).ok
            THEN /\ rejected(req, NoPermissions, catchBlock(req.op, URIMalformed))
       ELSE /\ enter(req)
            /\ routePermissions' = getRoutePermissions(req)
            /\ call(EvalsQuery)

\* app.get('/api/seller/:id') up to its await (lines 1422-1434)
GetSeller(req) ==
    /\ req.op = "seller"
    /\ LET sellerId == validatePositiveInteger(req.param)
       IN  IF req.user = "" THEN rejected(req, NoPermissions, Unauthorized)
           ELSE IF ~sellerId.ok
                THEN rejected(req, NoPermissions, catchBlock(req.op, sellerId.message))
           ELSE IF ~detectedRoute(req).ok
                THEN rejected(req, NoPermissions, catchBlock(req.op, URIMalformed))
           ELSE /\ enter(req)
                /\ routePermissions' = getRoutePermissions(req)
                /\ call(SellerEvalsQuery(sellerId.num))

\* app.get('/api/evaluation/:leadId') up to its await (lines 1525-1538)
GetEvaluation(req) ==
    /\ req.op = "evaluation"
    /\ LET leadId == validateLeadId(req.param)
       IN  IF req.user = "" THEN rejected(req, NoPermissions, Unauthorized)
           ELSE IF ~leadId.ok
                THEN rejected(req, NoPermissions, catchBlock(req.op, leadId.message))
           ELSE IF ~detectedRoute(req).ok
                THEN rejected(req, NoPermissions, catchBlock(req.op, URIMalformed))
           ELSE /\ enter(req)
                /\ routePermissions' = getRoutePermissions(req)
                /\ call(EvaluationQuery(leadId.leadId))

\* one await of queryBothDatabases on a pool, and whether it resolved
contact(source, method, resolved) ==
    [pool |-> source, call |-> method, resolved |-> resolved]

\* queryBothDatabases throws: the handler's catch block answers
thrown(message) ==
    /\ error' = message
    /\ reply(catchBlock(request.op, message))
    /\ UNCHANGED <<request, routePermissions, db, query, allEvals, allSellers, computed>>

\* const connection = await pool.getConnection() (line 980); the request
\* waits while the pool has handed out connectionLimit connections
MainGetConnection ==
    /\ pc = "main_connect"
    /\ held.main < connectionLimit
    /\ held' = [held EXCEPT !.main = @ + 1]
    /\ contacts' = Append(contacts, contact("main", "getConnection", TRUE))
    /\ pc' = "main_execute"
    /\ UNCHANGED <<request, routePermissions, db, query, results, allEvals,
                   allSellers, computed, error, response>>

\* the failed primary connection logged and the call going on to the secondary
MainGetConnectionFailsSwallowed ==
    /\ pc = "main_connect"
    /\ held.main < connectionLimit
    /\ contacts' = Append(contacts, contact("main", "getConnection", FALSE))
    /\ pc' = IF db.bigConfigured THEN "big_connect" ELSE "returned"
    /\ UNCHANGED <<request, routePermissions, db, query, results, held, allEvals,
                   allSellers, computed, error, response>>

\* the pool opens a connection for the caller and the connection fails; a
\* pool that has handed out connectionLimit connections opens none and
\* queues the caller (waitForConnections: true, queueLimit: 0)
MainGetConnectionFails ==
    /\ pc = "main_connect"
    /\ held.main < connectionLimit
    /\ contacts' = Append(contacts, contact("main", "getConnection", FALSE))
    /\ thrown(ConnectError)
    /\ UNCHANGED <<results, held>>

\* const [mainResults] = await connection.execute(query, params), the rows
\* pushed with their origin, connection.release() (lines 981-988)
MainExecute ==
    /\ pc = "main_execute"
    /\ results' = results \o withOrigin(execute(db.main, query), DistritoCafetero)
    /\ held' = [held EXCEPT !.main = @ - 1]
    /\ contacts' = Append(contacts, contact("main", "execute", TRUE))
    /\ pc' = IF db.bigConfigured THEN "big_connect" ELSE "returned"
    /\ UNCHANGED <<request, routePermissions, db, query, allEvals, allSellers,
                   computed, error, response>>

\* the primary catch block swallowing the error as the secondary one does
MainExecuteFailsSwallowed ==
    /\ pc = "main_execute"
    /\ contacts' = Append(contacts, contact("main", "execute", FALSE))
    /\ pc' = IF db.bigConfigured THEN "big_connect" ELSE "returned"
    /\ UNCHANGED <<request, routePermissions, db, query, results, held, allEvals,
                   allSellers, computed, error, response>>

\* connection.execute rejects: catch, throw error (lines 990-993); the
\* connection is not released
MainExecuteFails ==
    /\ pc = "main_execute"
    /\ contacts' = Append(contacts, contact("main", "execute", FALSE))
    /\ thrown(ExecuteError)
    /\ UNCHANGED <<results, held>>

\* const connection = await bigCenterPool.getConnection() (line 998)
BigGetConnection ==
    /\ pc = "big_connect"
    /\ held.big < connectionLimit
    /\ held' = [held EXCEPT !.big = @ + 1]
    /\ contacts' = Append(contacts, contact("big", "getConnection", TRUE))
    /\ pc' = "big_execute"
    /\ UNCHANGED <<request, routePermissions, db, query, results, allEvals,
                   allSellers, computed, error, response>>

\* the catch of lines 1008-1011: logged, the call returns what it has
BigGetConnectionFails ==
    /\ pc = "big_connect"
    /\ held.big < connectionLimit
    /\ contacts' = Append(contacts, contact("big", "getConnection", FALSE))
    /\ pc' = "returned"
    /\ UNCHANGED <<request, routePermissions, db, query, results, held, allEvals,
                   allSellers, computed, error, response>>

\* the secondary rows put before the rows already collected
BigExecuteUnshifts ==
    /\ pc = "big_execute"
    /\ results' = withOrigin(execute(db.big, query), BigCenter) \o results
    /\ held' = [held EXCEPT !.big = @ - 1]
    /\ contacts' = Append(contacts, contact("big", "execute", TRUE))
    /\ pc' = "returned"
    /\ UNCHANGED <<request, routePermissions, db, query, allEvals, allSellers,
                   computed, error, response>>

\* lines 999-1006
BigExecute ==
    /\ pc = "big_execute"
    /\ results' = results \o withOrigin(execute(db.big, query), BigCenter)
    /\ held' = [held EXCEPT !.big = @ - 1]
    /\ contacts' = Append(contacts, contact("big", "execute", TRUE))
    /\ pc' = "returned"
    /\ UNCHANGED <<request, routePermissions, db, query, allEvals, allSellers,
                   computed, error, response>>

\* the secondary catch block rethrowing as the primary one does
BigExecuteFailsThrown ==
    /\ pc = "big_execute"
    /\ contacts' = Append(contacts, contact("big", "execute", FALSE))
    /\ thrown(ExecuteError)
    /\ UNCHANGED <<results, held>>

\* connection.execute rejects on the secondary source (lines 1008-1011)
BigExecuteFails ==
    /\ pc = "big_execute"
    /\ contacts' = Append(contacts, contact("big", "execute", FALSE))
    /\ pc' = "returned"
    /\ UNCHANGED <<request, routePermissions, db, query, results, held, allEvals,
                   allSellers, computed, error, response>>

\* the dashboard handler from its first await to its second (lines 1214-1354)
DashboardEvaluations ==
    /\ pc = "returned"
    /\ query.kind = "evals"
    /\ allEvals' = results
    /\ computed' = dashboardStats(results, routePermissions)
    /\ results' = << >>
    /\ contacts' = << >>
    /\ call(SellersQuery)
    /\ UNCHANGED <<request, routePermissions, db, held, allSellers, error>>

\* the dashboard handler after its second await (lines 1354-1414)
DashboardSellers ==
    /\ pc = "returned"
    /\ query.kind = "sellers"
    /\ allSellers' = results
    /\ computed' = withFilteredSellers(computed, results, routePermissions)
    /\ reply([status |-> 200,
              body |-> dashboardBody(withFilteredSellers(computed, results,
                                                         routePermissions))])
    /\ UNCHANGED <<request, routePermissions, db, query, results, held, allEvals,
                   error, contacts>>

\* routePermissions.allowedSellers.includes(sellerName) ||
\* routePermissions.allowedSellers.includes(unifiedSellerName)
isAllowed(sellerName, permissions) ==
    \/ arrayIncludes(permissions.allowedSellers, sellerName)
    \/ arrayIncludes(permissions.allowedSellers, getUnifiedSellerName(sellerName))

AccessDenied(message) ==
    [status |-> 403, body |-> [error |-> "Acceso denegado", message |-> message]]

\* one turn of evaluations.forEach of the seller handler (lines 1476-1503)
sellerTotalsExtracted(acc, x) ==
    IF scoreCounts(x)
    THEN addToTotals(acc, x.final_score.num, countedSeconds(x), EmptyObject)
    ELSE acc

sellerTotalsOne(acc, e) == sellerTotalsExtracted(acc, extractScores(e.calificacion))

RECURSIVE sellerTotalsFrom(_, _, _)
sellerTotalsFrom(acc, evaluations, k) ==
    IF k > Len(evaluations) THEN acc
    ELSE sellerTotalsFrom(sellerTotalsOne(acc, evaluations[k]), evaluations, k + 1)

sellerStatsOf(evaluations, t) ==
    [stats |-> [totalLeads |-> t.totalLeads,
                avgResponseTime |-> IF t.validTimeCount > 0
                                    THEN Quotient(t.totalResponseTime, t.validTimeCount)
                                    ELSE Zero,
                avgScore |-> IF t.totalLeads > 0
                             THEN Quotient(t.totalScore, t.totalLeads)
                             ELSE Zero],
     evaluations |-> evaluations]

sellerBodyOf(evaluations) ==
    sellerStatsOf(evaluations, sellerTotalsFrom(InitialTotals, evaluations, 1))

\* the body of res.json({ stats, evaluations }) (lines 1461-1512)
sellerBody(evals) == sellerBodyOf(validEvaluations(evals))

\* the seller handler after its await (lines 1436-1512)
SellerEvaluations ==
    /\ pc = "returned"
    /\ query.kind = "sellerEvals"
    /\ allEvals' = results
    /\ IF /\ routePermissions.present
          /\ Len(results) > 0
          /\ ~isAllowed(results[1].seller_name, routePermissions)
       THEN reply(AccessDenied("No tienes permisos para ver este vendedor"))
       ELSE reply([status |-> 200, body |-> sellerBody(results)])
    /\ UNCHANGED <<request, routePermissions, db, query, results, held,
                   allSellers, computed, error, contacts>>

\* evaluation.calificacion = JSON.parse(fixJsonString(evaluation.calificacion)):
\* the parsed value is written as the text it was parsed from
parsedEvaluation(evaluation) ==
    [evaluation EXCEPT !.calificacion = [parsed |-> fixJsonString(evaluation.calificacion)]]

\* the handler answering with the stored text when it does not parse
EvaluationRecordLenient ==
    /\ pc = "returned"
    /\ query.kind = "evaluation"
    /\ allEvals' = results
    /\ IF Len(results) = 0
       THEN reply([status |-> 404, body |-> [error |-> "Evaluation not found"]])
       ELSE IF /\ routePermissions.present
               /\ ~isAllowed(results[1].seller_name, routePermissions)
       THEN reply(AccessDenied("No tienes permisos para ver este lead"))
       ELSE reply([status |-> 200, body |-> parsedEvaluation(results[1])])
    /\ UNCHANGED <<request, routePermissions, db, query, results, held,
                   allSellers, computed, error, contacts>>

\* the evaluation handler after its await (lines 1540-1579)
EvaluationRecord ==
    /\ pc = "returned"
    /\ query.kind = "evaluation"
    /\ allEvals' = results
    /\ IF Len(results) = 0
       THEN reply([status |-> 404, body |-> [error |-> "Evaluation not found"]])
       ELSE IF /\ routePermissions.present
               /\ ~isAllowed(results[1].seller_name, routePermissions)
       THEN reply(AccessDenied("No tienes permisos para ver este lead"))
       ELSE IF ~parses(fixJsonString(results[1].calificacion))
       THEN reply([status |-> 500, body |-> [error |-> "Invalid calificacion format"]])
       ELSE reply([status |-> 200, body |-> parsedEvaluation(results[1])])
    /\ UNCHANGED <<request, routePermissions, db, query, results, held,
                   allSellers, computed, error, contacts>>

\* the requests the server is sent
RoutePaths == {"", "/Daniela Berdejo", "/Katherine López"}

Users == {"", "daniela.berdejo@ejemplo.com"}

SellerIds ==
    {<<"1">>, <<"2">>, <<"3">>, <<"a", "b", "c">>, <<"0">>, <<"-", "3">>,
     <<"1", ".", "5">>, <<"1", "2", "a", "b", "c">>}

\* a lead id of n characters
longLeadId(n) == [i \in 1..n |-> "x"]

LeadIds ==
    {<<"L", "1">>, <<"L", "2">>, <<"L", "3">>, <<"B", "1">>, <<"L", "9">>,
     <<".", ".", "/", "e", "t", "c">>, << >>, <<"a", "-", "B", "_", "7", ".">>,
     longLeadId(100), longLeadId(101)}

Requests ==
    {[op |-> "dashboard", param |-> << >>, xRoutePath |-> r, referer |-> << >>,
      user |-> u] : r \in RoutePaths, u \in Users}
    \cup {[op |-> "seller", param |-> id, xRoutePath |-> r, referer |-> << >>,
           user |-> u] : id \in SellerIds, r \in RoutePaths, u \in Users}
    \cup {[op |-> "evaluation", param |-> l, xRoutePath |-> r, referer |-> << >>,
           user |-> u] : l \in LeadIds, r \in RoutePaths, u \in Users}

\* the sources of the running server: with and without BigCenter configured
ServerCells ==
    [main |-> << [sellers_id |-> 1, calificacion |-> CompactScoreTime],
                 [sellers_id |-> 2, calificacion |-> NullScoreBareTime],
                 [sellers_id |-> 1, calificacion |-> TrailingComma] >>,
     big |-> << [sellers_id |-> 1, calificacion |-> ScoreOnly],
                [sellers_id |-> 2, calificacion |-> ScoreShortTime],
                [sellers_id |-> 4, calificacion |-> ScoreOnly] >>]

ServerDatabases ==
    {database(ServerCells.main, ServerCells.big, configured) :
        configured \in BOOLEAN}

\* the process after start-up: no request yet, both pools full
Idle ==
    /\ pc = "idle"
    /\ request = NoRequest
    /\ routePermissions = NoPermissions
    /\ query = NoQuery
    /\ results = << >>
    /\ held = [main |-> 0, big |-> 0]
    /\ allEvals = << >>
    /\ allSellers = << >>
    /\ computed = NoComputed
    /\ error = NoError
    /\ contacts = << >>
    /\ response = NoResponse

Init ==
    /\ db \in ServerDatabases
    /\ Idle

Next ==
    \/ \E req \in Requests : GetDashboard(req)
    \/ \E req \in Requests : GetSeller(req)
    \/ \E req \in Requests : GetEvaluation(req)
    \/ MainGetConnection
    \/ MainGetConnectionFails
    \/ MainExecute
    \/ MainExecuteFails
    \/ BigGetConnection
    \/ BigGetConnectionFails
    \/ BigExecute
    \/ BigExecuteFails
    \/ DashboardEvaluations
    \/ DashboardSellers
    \/ SellerEvaluations
    \/ EvaluationRecord

Spec == Init /\ [][Next]_vars

(***************************************************************************)
(* The handlers over every content of the two sources, both answering      *)
(***************************************************************************)
DataSellerIds == {<<"1">>, <<"2">>}

DataRequests ==
    {req \in Requests :
        /\ req.user # ""
        /\ req.op \in {"dashboard", "seller"}
        /\ (req.op = "seller" => req.param \in DataSellerIds)}

\* every pair of evaluation tables of at most MaxEvals rows together
InitData ==
    /\ \E n \in 0..MaxEvals : \E j \in 0..n :
           \E mainCells \in [1..j -> cellsOf(MainSellers)] :
               \E bigCells \in [1..(n - j) -> cellsOf(BigSellers)] :
                   db = database(mainCells, bigCells, TRUE)
    /\ Idle

NextData ==
    \/ \E req \in DataRequests : GetDashboard(req)
    \/ \E req \in DataRequests : GetSeller(req)
    \/ MainGetConnection
    \/ MainExecute
    \/ BigGetConnection
    \/ BigExecute
    \/ DashboardEvaluations
    \/ DashboardSellers
    \/ SellerEvaluations

SpecData == InitData /\ [][NextData]_vars

(***************************************************************************)
(* The dashboard over every roster of sellers of the primary source        *)
(***************************************************************************)
AnaRuiz == <<"A", "n", "a", " ", "R", "u", "i", "z">>

\* stored with two trailing spaces
AnaRuizPadded == <<"A", "n", "a", " ", "R", "u", "i", "z", " ", " ">>

CalleMaria == <<"C", "a", "l", "l", "e", " ", "M", "a", "r", "í", "a">>

\* a stored name that is a property every object inherits
Constructor == <<"c", "o", "n", "s", "t", "r", "u", "c", "t", "o", "r">>

ErickPonceJr ==
    <<"E", "r", "i", "c", "k", " ", "P", "o", "n", "c", "e", " ", "J", "r">>

\* stored with a tab between the two words
MariaTabCalle == <<"M", "a", "r", "í", "a", "\t", "C", "a", "l", "l", "e">>

MarioCalle == <<"M", "a", "r", "i", "o", " ", "C", "a", "l", "l", "e">>

\* the names a sellers table may hold, in the order ORDER BY nombre yields
RosterNames ==
    <<AnaRuiz, AnaRuizPadded, CalleMaria, Constructor, ErickPonce, ErickPonceJr,
      MariaTabCalle, MariaCalle, MariaIsabelCalle, MarioCalle>>

\* most sellers the primary source holds
MaxSellers == 2

RECURSIVE Ascending(_)
Ascending(S) ==
    IF S = {} THEN << >>
    ELSE << CHOOSE n \in S : \A m \in S : n <= m >>
         \o Ascending(S \ {CHOOSE n \in S : \A m \in S : n <= m})

rosterOf(numbers) ==
    [k \in 1..Len(numbers) |-> [id |-> numbers[k], nombre |-> RosterNames[numbers[k]]]]

\* one evaluation of each seller of the roster
rosterCells(sellers) ==
    [k \in 1..Len(sellers) |->
        [sellers_id |-> sellers[k].id, calificacion |-> ScoreShortTime]]

rosterDatabase(sellers) ==
    [main |-> [sellers |-> sellers,
               evaluations |-> evaluationsTable(rosterCells(sellers), "L", 0)],
     big |-> [sellers |-> << >>, evaluations |-> << >>],
     bigConfigured |-> FALSE]

RosterDatabases ==
    {rosterDatabase(rosterOf(Ascending(S))) :
        S \in {T \in SUBSET (1..Len(RosterNames)) : Cardinality(T) <= MaxSellers}}

RosterRequests == {req \in Requests : req.user # "" /\ req.op = "dashboard"}

InitRoster ==
    /\ db \in RosterDatabases
    /\ Idle

NextRoster ==
    \/ \E req \in RosterRequests : GetDashboard(req)
    \/ MainGetConnection
    \/ MainExecute
    \/ DashboardEvaluations
    \/ DashboardSellers

SpecRoster == InitRoster /\ [][NextRoster]_vars

(***************************************************************************)
(* The evaluation handler over every stored calificacion text              *)
(***************************************************************************)
\* most pieces a stored text is made of
MaxPieces == 4

\* the pieces of the stored texts
Pieces ==
    { <<"\"">>, <<":">>, <<" ">>, <<"\n">>, <<"1">>, <<"2", "3">>, <<",">>,
      <<"}">>, <<"{", "\"", "a", "\"">>, NullWord, TrueWord,
      <<":", "1", ":", "2", ":", "3">> }

RECURSIVE concatFrom(_, _)
concatFrom(pieces, k) ==
    IF k > Len(pieces) THEN << >> ELSE pieces[k] \o concatFrom(pieces, k + 1)

\* the primary source holding one evaluation, L1 of seller 1, with the text
payloadDatabase(text) ==
    [main |-> [sellers |-> MainSellers,
               evaluations |->
                   evaluationsTable(<< [sellers_id |-> 1, calificacion |-> text] >>,
                                    "L", 0)],
     big |-> [sellers |-> << >>, evaluations |-> << >>],
     bigConfigured |-> FALSE]

PayloadRequests ==
    {req \in Requests :
        /\ req.user # ""
        /\ req.op = "evaluation"
        /\ req.param = <<"L", "1">>
        /\ req.xRoutePath = ""}

InitPayload ==
    /\ \E n \in 0..MaxPieces : \E pieces \in [1..n -> Pieces] :
           db = payloadDatabase(concatFrom(pieces, 1))
    /\ Idle

NextPayload ==
    \/ \E req \in PayloadRequests : GetEvaluation(req)
    \/ MainGetConnection
    \/ MainExecute
    \/ EvaluationRecord

SpecPayload == InitPayload /\ [][NextPayload]_vars

(***************************************************************************)
(* Seller detail, request after request, with the steps that are taken     *)
(* whenever they stay possible                                             *)
(***************************************************************************)
LiveRequests ==
    {req \in Requests :
        /\ req.user # ""
        /\ req.op = "seller"
        /\ req.param \in DataSellerIds
        /\ req.xRoutePath = ""}

InitLive ==
    /\ db = database(ServerCells.main, ServerCells.big, TRUE)
    /\ Idle

NextLive ==
    \/ \E req \in LiveRequests : GetSeller(req)
    \/ MainGetConnection
    \/ MainGetConnectionFails
    \/ MainExecute
    \/ MainExecuteFails
    \/ BigGetConnection
    \/ BigGetConnectionFails
    \/ BigExecute
    \/ BigExecuteFails
    \/ SellerEvaluations

\* every pending promise of the driver settles, one way or the other, while
\* it can, and the handler continues once its await has returned (it does
\* not stay at that position: the weak fairness of SellerEvaluations, the
\* one step possible there); nothing obliges a client to send a request
FairLive ==
    /\ WF_vars(MainGetConnection \/ MainGetConnectionFails)
    /\ WF_vars(MainExecute \/ MainExecuteFails)
    /\ WF_vars(BigGetConnection \/ BigGetConnectionFails)
    /\ WF_vars(BigExecute \/ BigExecuteFails)
    /\ []<>(pc # "returned")

SpecLive == InitLive /\ [][NextLive]_vars /\ FairLive

(***************************************************************************)
(* Properties                                                              *)
(***************************************************************************)
\* the dashboard handler has answered with its body
DashboardAnswered ==
    pc = "responded" /\ request.op = "dashboard" /\ response.status = 200

\* the seller handler has answered with its body
SellerAnswered ==
    pc = "responded" /\ request.op = "seller" /\ response.status = 200

\* the text holds no explicit null for the final_score key
noExplicitNull(e) ==
    /\ ~includes(e.calificacion, ScoreNullSpaced)
    /\ ~includes(e.calificacion, ScoreNullCompact)

\* the key is followed, after optional white space, by a digit at index i
digitsFollowKeyAt(calStr, i) ==
    /\ MatchesAt(calStr, i, ScoreKey)
    /\ SkipWhile(calStr, i + Len(ScoreKey), WhiteSpace) <= Len(calStr)
    /\ calStr[SkipWhile(calStr, i + Len(ScoreKey), WhiteSpace)] \in Digits

\* a usable evaluation: no explicit null, and a "final_score": <digits> match
usable(e) ==
    /\ noExplicitNull(e)
    /\ \E i \in 1..Len(e.calificacion) : digitsFollowKeyAt(e.calificacion, i)

\* the evaluation is visible in the scope of the request
scopeVisible(e) ==
    \/ ~routePermissions.present
    \/ \E k \in 1..Len(routePermissions.allowedSellers) :
           routePermissions.allowedSellers[k] = e.seller_name

usableAndVisible(e) == usable(e) /\ scopeVisible(e)

\* C1: stats.totalLeads of the dashboard is the number of merged evaluations
\* that are visible in the scope and usable (no explicit null, a digits match),
\* whichever of the two filters is applied first
C1_TotalLeadsCountsUsableVisible ==
    DashboardAnswered =>
        /\ response.body.stats.totalLeads =
               Cardinality({k \in 1..Len(allEvals) : usableAndVisible(allEvals[k])})
        /\ response.body.stats.totalLeads =
               Len(SelectSeq(SelectSeq(allEvals, scopeVisible), usable))
        /\ response.body.stats.totalLeads =
               Len(SelectSeq(SelectSeq(allEvals, usable), scopeVisible))

\* a scoped dashboard that counted one of two visible evaluations, the other
\* holding an explicit null and a number further on
C1_Witness ==
    /\ DashboardAnswered
    /\ routePermissions.present
    /\ Len(allEvals) = 2
    /\ response.body.stats.totalLeads = 1
    /\ \E k \in 1..2 : allEvals[k].calificacion = NullThenNumber /\ scopeVisible(allEvals[k])

\* the last await of the current call rejected, on the given pool
lastRejected(source) ==
    /\ contacts # << >>
    /\ contacts[Len(contacts)].pool = source
    /\ ~contacts[Len(contacts)].resolved

\* C2: when the secondary source raises on getConnection or on execute, the
\* call returns exactly the rows of the primary source under the primary
\* label, nothing is thrown and the request is not answered with an error of
\* the call
C2_SecondaryFailureKeepsPrimaryRows ==
    lastRejected("big") =>
        /\ pc \in {"returned", "responded"}
        /\ results = withOrigin(execute(db.main, query), DistritoCafetero)
        /\ error = NoError
        /\ pc = "responded" => response # InternalError

\* the secondary source rejected the statement and the call returned rows
C2_Witness ==
    /\ lastRejected("big")
    /\ contacts[Len(contacts)].call = "execute"
    /\ pc = "returned"
    /\ Len(results) = 2

\* C3: when the primary source fails on getConnection or on execute, the
\* error propagates: the secondary source is not queried, no rows are
\* returned, and the operation answers with the generic internal error
C3_PrimaryFailureIsFatal ==
    lastRejected("main") =>
        /\ pc = "responded"
        /\ error \in {ConnectError, ExecuteError}
        /\ \A k \in 1..Len(contacts) : contacts[k].pool = "main"
        /\ results = << >>
        /\ request.op \in {"dashboard", "seller", "evaluation"}
        /\ response = InternalError

\* the evaluation handler answered the internal error after the primary
\* source rejected its statement
C3_Witness ==
    /\ lastRejected("main")
    /\ contacts[Len(contacts)].call = "execute"
    /\ request.op = "evaluation"
    /\ response = InternalError

RECURSIVE SumSeq(_)
SumSeq(numbers) ==
    IF numbers = << >> THEN 0 ELSE Head(numbers) + SumSeq(Tail(numbers))

\* the leftmost place of the text where digits follow the key
firstScoreAt(calStr) ==
    CHOOSE i \in 1..Len(calStr) :
        /\ digitsFollowKeyAt(calStr, i)
        /\ \A j \in 1..(i - 1) : ~digitsFollowKeyAt(calStr, j)

digitsFrom(calStr, d) == Slice(calStr, d, SkipWhile(calStr, d, Digits) - 1)

\* the final_score of a usable evaluation: the digits that follow the key
scoreOf(e) ==
    DecimalValue(digitsFrom(e.calificacion,
                            SkipWhile(e.calificacion,
                                      firstScoreAt(e.calificacion) + Len(ScoreKey),
                                      WhiteSpace)))

\* H*3600 + M*60 + S of a duration of three components, 0 of any other
clockSeconds(parts) ==
    IF Len(parts) # 3 THEN 0
    ELSE DecimalValue(parts[1]) * 3600 + DecimalValue(parts[2]) * 60
         + DecimalValue(parts[3])

\* the seconds of the extracted duration of an evaluation, 0 when it has none
durationOf(e) ==
    IF timeMatch(e.calificacion).found
    THEN clockSeconds(split(timeMatch(e.calificacion).group, ":"))
    ELSE 0

hasDuration(e) == durationOf(e) > 0

scoresOf(evaluations) == [k \in 1..Len(evaluations) |-> scoreOf(evaluations[k])]

durationsOf(evaluations) ==
    [k \in 1..Len(evaluations) |-> durationOf(evaluations[k])]

averageOf(numbers) ==
    IF numbers = << >> THEN Zero ELSE Quotient(SumSeq(numbers), Len(numbers))

\* C4: over the usable evaluations, avgScore is the sum of final_score over
\* totalLeads (0 without leads), avgResponseTime is the sum of the durations
\* above 0 seconds over their number (0 without any); no usable evaluation
\* gives totalLeads 0, both averages 0 and an empty ranking
C4_GlobalAverages ==
    DashboardAnswered =>
        /\ response.body.stats.totalLeads = Len(computed.evaluations)
        /\ response.body.stats.avgScore = averageOf(scoresOf(computed.evaluations))
        /\ response.body.stats.avgResponseTime =
               averageOf(durationsOf(SelectSeq(computed.evaluations, hasDuration)))
        /\ computed.evaluations = << >> =>
               /\ response.body.stats.totalLeads = 0
               /\ response.body.stats.avgScore = Zero
               /\ response.body.stats.avgResponseTime = Zero
               /\ response.body.topSellers = << >>

\* two leads of different scores, one of them with a duration above zero
C4_Witness ==
    /\ DashboardAnswered
    /\ response.body.stats.totalLeads = 2
    /\ response.body.stats.avgScore = Quotient(150, 2)
    /\ response.body.stats.avgResponseTime = Quotient(8130, 1)

\* C5: an evaluation whose text holds an explicit null for final_score adds
\* to no aggregate and is in no list of the answer, of the dashboard and of
\* the seller handler alike, a numeric match elsewhere in the text
\* notwithstanding: the answer is the one the same sources give without it
C5_ExplicitNullIsExcluded ==
    /\ DashboardAnswered =>
           /\ \A k \in 1..Len(computed.evaluations) :
                  noExplicitNull(computed.evaluations[k])
           /\ response.body.stats.totalLeads =
                  Len(SelectSeq(SelectSeq(allEvals, noExplicitNull), usableAndVisible))
           /\ response.body =
                  dashboardBody(withFilteredSellers(
                      dashboardStats(SelectSeq(allEvals, noExplicitNull),
                                     routePermissions),
                      allSellers, routePermissions))
    /\ SellerAnswered =>
           /\ \A k \in 1..Len(response.body.evaluations) :
                  noExplicitNull(response.body.evaluations[k])
           /\ response.body = sellerBody(SelectSeq(allEvals, noExplicitNull))

\* the seller handler answered one lead of two evaluations, the first holding
\* an explicit null and a number further on
C5_Witness ==
    /\ SellerAnswered
    /\ Len(allEvals) = 2
    /\ allEvals[1].calificacion = NullThenNumber
    /\ response.body.stats.totalLeads = 1
    /\ Len(response.body.evaluations) = 1

\* the canonical name of a stored seller name
canonical(name) ==
    IF name = MariaIsabelCalle THEN MariaCalle
    ELSE IF name = MariaCamilaMunoz THEN CamilaMunoz
    ELSE name

\* the usable evaluations of the seller of a canonical name, in merged order
evaluationsOfSeller(evaluations, nombre) ==
    SelectSeq(evaluations, LAMBDA e : canonical(e.seller_name) = nombre)

\* durations that are no duration: not three components separated by colons
BrokenClocks ==
    {<<"5">>, <<"1", ":", "2">>, <<"1", ":", "2", ":", "3", ":", "4">>,
     <<"0", "2", ":", "1", "5">>}

\* C6: a usable evaluation adds its seconds to the duration sum and 1 to the
\* duration count, of the global stats and of its seller, iff it has a
\* duration and H*3600 + M*60 + S is above zero; "00:00:00" and a duration
\* without three components are 0 seconds, so the text with score 85 and
\* duration "00:00:00" adds 1 lead, 85 to the score sum, 0 to the duration count
C6_DurationCountsIffPositive ==
    /\ timeToSeconds(ZeroTime) = Number(0)
    /\ \A clock \in BrokenClocks : timeToSeconds(clock) = Number(0)
    /\ DashboardAnswered =>
           /\ computed.validTimeCount =
                  Len(SelectSeq(computed.evaluations, hasDuration))
           /\ computed.totalResponseTime =
                  SumSeq(durationsOf(computed.evaluations))
           /\ \A i \in 1..Len(response.body.topSellers) :
                  /\ response.body.topSellers[i].timeCount =
                         Len(SelectSeq(evaluationsOfSeller(
                                           computed.evaluations,
                                           response.body.topSellers[i].nombre),
                                       hasDuration))
                  /\ response.body.topSellers[i].totalTime =
                         SumSeq(durationsOf(evaluationsOfSeller(
                                    computed.evaluations,
                                    response.body.topSellers[i].nombre)))
           /\ (Len(computed.evaluations) = 1
               /\ computed.evaluations[1].calificacion = ScoreZeroTime) =>
                  /\ computed.totalLeads = 1
                  /\ computed.totalScore = 85
                  /\ computed.validTimeCount = 0
                  /\ response.body.topSellers[1].timeCount = 0

\* one seller with two leads: the first of duration "00:00:00", the second of
\* a duration above zero
C6_Witness ==
    /\ DashboardAnswered
    /\ Len(computed.evaluations) = 2
    /\ computed.evaluations[1].calificacion = ScoreZeroTime
    /\ computed.validTimeCount = 1
    /\ Len(response.body.topSellers) = 1
    /\ response.body.topSellers[1].timeCount = 1

\* C7: the ranking has one entry per canonical name: no two entries share a
\* name, every usable evaluation is in the entry of its canonical name, the
\* sums and counts of an entry are those of the usable evaluations of that
\* name, and its id is the sellers_id of the first of them in merged order
C7_RankingKeyedByCanonicalName ==
    DashboardAnswered =>
        /\ \A i, j \in 1..Len(response.body.topSellers) :
               response.body.topSellers[i].nombre = response.body.topSellers[j].nombre
                   => i = j
        /\ \A k \in 1..Len(computed.evaluations) :
               \E i \in 1..Len(response.body.topSellers) :
                   response.body.topSellers[i].nombre =
                       canonical(computed.evaluations[k].seller_name)
        /\ \A i \in 1..Len(response.body.topSellers) :
               LET entry == response.body.topSellers[i]
                   mine == evaluationsOfSeller(computed.evaluations, entry.nombre)
               IN  /\ mine # << >>
                   /\ entry.count = Len(mine)
                   /\ entry.totalScore = SumSeq(scoresOf(mine))
                   /\ entry.timeCount = Len(SelectSeq(mine, hasDuration))
                   /\ entry.totalTime = SumSeq(durationsOf(mine))
                   /\ entry.id = mine[1].sellers_id

\* one entry made of two evaluations stored under two names and two ids
C7_Witness ==
    /\ DashboardAnswered
    /\ Len(computed.evaluations) = 2
    /\ computed.evaluations[1].seller_name = MariaIsabelCalle
    /\ computed.evaluations[2].seller_name = MariaCalle
    /\ computed.evaluations[1].sellers_id # computed.evaluations[2].sellers_id
    /\ Len(response.body.topSellers) = 1
    /\ response.body.topSellers[1].count = 2
    /\ response.body.topSellers[1].id = computed.evaluations[1].sellers_id

\* the place of the first usable evaluation of a canonical name
firstEncounter(nombre) ==
    CHOOSE k \in 1..Len(computed.evaluations) :
        /\ canonical(computed.evaluations[k].seller_name) = nombre
        /\ \A j \in 1..(k - 1) :
               canonical(computed.evaluations[j].seller_name) # nombre

\* the ranking is in descending order of avgScore
rankedByAvgScore ==
    \A i, j \in 1..Len(response.body.topSellers) :
        i < j => ~QuotientLess(response.body.topSellers[i].avgScore,
                               response.body.topSellers[j].avgScore)

tied(i, j) ==
    QuotientEqual(response.body.topSellers[i].avgScore,
                  response.body.topSellers[j].avgScore)

\* the name is the decimal numeral of an integer: 0, or digits not led by 0
isNumeral(name) ==
    /\ name # << >>
    /\ \A k \in 1..Len(name) : name[k] \in Digits
    /\ (Len(name) = 1 \/ name[1] # "0")

\* C8 as stated: the ranking is in descending order of avgScore and every
\* two sellers of equal avgScore are in the order of their first encounter
C8_TiesInEncounterOrder ==
    DashboardAnswered =>
        /\ rankedByAvgScore
        /\ \A i, j \in 1..Len(response.body.topSellers) :
               (i < j /\ tied(i, j)) =>
                   firstEncounter(response.body.topSellers[i].nombre)
                       < firstEncounter(response.body.topSellers[j].nombre)

\* C8 amended: the ranking is in descending order of avgScore and every two
\* sellers of equal avgScore whose canonical names are not numerals of an
\* integer are in the order of their first encounter
C8_TiesInEncounterOrderUnlessNumeral ==
    DashboardAnswered =>
        /\ rankedByAvgScore
        /\ \A i, j \in 1..Len(response.body.topSellers) :
               (/\ i < j
                /\ tied(i, j)
                /\ ~isNumeral(response.body.topSellers[i].nombre)
                /\ ~isNumeral(response.body.topSellers[j].nombre)) =>
                   firstEncounter(response.body.topSellers[i].nombre)
                       < firstEncounter(response.body.topSellers[j].nombre)

\* two sellers of equal avgScore, neither named by a numeral
C8_Witness ==
    /\ DashboardAnswered
    /\ Len(response.body.topSellers) = 2
    /\ tied(1, 2)
    /\ ~isNumeral(response.body.topSellers[1].nombre)
    /\ ~isNumeral(response.body.topSellers[2].nombre)
    /\ response.body.topSellers[1].nombre = MariaCalle

\* C9: without a scope the visibility filter is the identity: the sellers the
\* filter returns are the sellers it was given, in their order, and the
\* dashboard drops no evaluation for its seller
C9_AbsentScopeIsIdentity ==
    (DashboardAnswered /\ ~routePermissions.present) =>
        /\ computed.filteredSellers = allSellers
        /\ computed.filteredEvals = allEvals
        /\ Len(response.body.leads) = Len(SelectSeq(allEvals, usable))

\* an unscoped dashboard over two sellers with an evaluation each
C9_Witness ==
    /\ DashboardAnswered
    /\ ~routePermissions.present
    /\ Len(allSellers) = 2
    /\ Len(computed.filteredSellers) = 2
    /\ Len(response.body.leads) = 2

\* first index >= i of s that holds white space (Len(s) + 1 if none)
RECURSIVE wordEnd(_, _)
wordEnd(s, i) ==
    IF i <= Len(s) /\ s[i] \notin WhiteSpace THEN wordEnd(s, i + 1) ELSE i

\* the tokens of a name: its maximal runs of characters that are no white space
RECURSIVE wordsFrom(_, _)
wordsFrom(s, i) ==
    IF SkipWhile(s, i, WhiteSpace) > Len(s) THEN << >>
    ELSE << Slice(s, SkipWhile(s, i, WhiteSpace),
                  wordEnd(s, SkipWhile(s, i, WhiteSpace)) - 1) >>
         \o wordsFrom(s, wordEnd(s, SkipWhile(s, i, WhiteSpace)))

tokens(name) == wordsFrom(toLowerCase(name), 1)

\* one token is a substring of the other
tokensMatch(a, b) == includes(a, b) \/ includes(b, a)

\* at least two tokens of the stored name match a token of the allowed name
fuzzyMatch(nombre, allowedName) ==
    Cardinality({k \in 1..Len(tokens(nombre)) :
                    \E j \in 1..Len(tokens(allowedName)) :
                        tokensMatch(tokens(nombre)[k], tokens(allowedName)[j])}) >= 2

\* the keep rule: canonical name allowed, stored name allowed, or a fuzzy match
keptInScope(seller) ==
    \/ arrayIncludes(routePermissions.allowedSellers, canonical(seller.nombre))
    \/ arrayIncludes(routePermissions.allowedSellers, seller.nombre)
    \/ \E k \in 1..Len(routePermissions.allowedSellers) :
           fuzzyMatch(seller.nombre, routePermissions.allowedSellers[k])

\* C10: with a scope, the filter keeps exactly the sellers whose canonical or
\* stored name is in the allow-list or that match an allowed name in at least
\* two tokens (lower case, split on white space, substring either way), in
\* their order
C10_KeepRule ==
    (DashboardAnswered /\ routePermissions.present) =>
        computed.filteredSellers = SelectSeq(allSellers, keptInScope)

\* the roster filter keeps the seller of the evaluation
sellerOfEvalKept(e) ==
    filterSellersByPermissions(
        << [id |-> e.sellers_id, nombre |-> e.seller_name] >>,
        routePermissions) # << >>

\* the evaluation is in the evaluation set the dashboard works on
inFilteredEvals(e) ==
    \E k \in 1..Len(computed.filteredEvals) : computed.filteredEvals[k] = e

\* C11: for every scope and every evaluation, the dashboard keeps the
\* evaluation in its evaluation set iff the roster filter would keep its
\* seller (canonical name allowed, stored name allowed, or a fuzzy match)
C11_EvalsFilteredLikeRoster ==
    DashboardAnswered =>
        \A k \in 1..Len(allEvals) :
            inFilteredEvals(allEvals[k]) <=> sellerOfEvalKept(allEvals[k])

\* the seller handler has answered a validated, authenticated request
SellerHandled ==
    /\ pc = "responded"
    /\ request.op = "seller"
    /\ query.kind = "sellerEvals"

\* the sellers the requested id resolves to in the sources the reader queries
sellersWithId(id) ==
    {db.main.sellers[k] : k \in {i \in 1..Len(db.main.sellers) :
                                    db.main.sellers[i].id = id}}
    \cup (IF db.bigConfigured
          THEN {db.big.sellers[k] : k \in {i \in 1..Len(db.big.sellers) :
                                              db.big.sellers[i].id = id}}
          ELSE {})

\* neither the stored name nor the canonical name is in the allow-list
forbidden(nombre) ==
    /\ ~arrayIncludes(routePermissions.allowedSellers, nombre)
    /\ ~arrayIncludes(routePermissions.allowedSellers, canonical(nombre))

\* the requested id resolves to a seller, and to forbidden sellers only
forbiddenSellerRequested ==
    /\ routePermissions.present
    /\ sellersWithId(query.param) # {}
    /\ \A s \in sellersWithId(query.param) : forbidden(s.nombre)

\* C12: seller detail with a scope present: when the scope forbids the seller
\* the requested id resolves to and the sources answered, the outcome is
\* access denied, never the stats response and never not-found
C12_ForbiddenSellerIsDenied ==
    (SellerHandled /\ forbiddenSellerRequested /\ response.status # 500) =>
        response.status = 403

\* the evaluation handler has answered from what the reader returned
EvaluationHandled ==
    /\ pc = "responded"
    /\ request.op = "evaluation"
    /\ query.kind = "evaluation"
    /\ error = NoError

NotFound == [status |-> 404, body |-> [error |-> "Evaluation not found"]]

LeadDenied ==
    [status |-> 403,
     body |-> [error |-> "Acceso denegado",
               message |-> "No tienes permisos para ver este lead"]]

PayloadMalformed ==
    [status |-> 500, body |-> [error |-> "Invalid calificacion format"]]

\* the record with its calificacion replaced by the parsed structure
recordParsed(record) ==
    [status |-> 200,
     body |-> [record EXCEPT
                  !.calificacion = [parsed |-> fixJsonString(record.calificacion)]]]

\* the outcome the four rules give, decided in their order
evaluationOutcome ==
    IF results = << >> THEN NotFound
    ELSE IF routePermissions.present /\ forbidden(results[1].seller_name)
    THEN LeadDenied
    ELSE IF ~parses(fixJsonString(results[1].calificacion))
    THEN PayloadMalformed
    ELSE recordParsed(results[1])

isPositiveInteger(text) ==
    /\ text # << >>
    /\ \A i \in 1..Len(text) : text[i] \in Digits
    /\ \E i \in 1..Len(text) : text[i] # "0"

\* C14: seller detail accepts a seller id only if it is a positive integer:
\* for every other id of an authenticated request no data source is
\* contacted and the answer is the validation error
C14_NonIntegerIdRejected ==
    (/\ request.op = "seller"
     /\ request.user # ""
     /\ ~isPositiveInteger(request.param)) =>
        /\ contacts = << >>
        /\ query = NoQuery
        /\ pc = "responded"
        /\ response.status = 400

\* 1 to 100 characters, each a letter, a digit, a hyphen, an underscore or a dot
wellFormedLeadId(text) ==
    /\ Len(text) >= 1
    /\ Len(text) <= 100
    /\ \A i \in 1..Len(text) : text[i] \in LeadIdChars

\* the answer reporting the reason of a rejected lead id
leadIdRejection(reason) ==
    [status |-> 400,
     body |-> [error |-> "Datos de entrada no válidos", details |-> reason]]

\* C15: evaluation detail accepts a lead id iff it is 1 to 100 characters of
\* letters, digits, hyphen, underscore or dot: a well-formed id is looked up
\* in the sources, any other id is answered with the validation error and
\* its reason and no data source is contacted
C15_LeadIdShape ==
    (request.op = "evaluation" /\ request.user # "") =>
        IF wellFormedLeadId(request.param)
        THEN /\ query = EvaluationQuery(request.param)
             /\ (pc = "responded" => response.status # 400)
        ELSE /\ contacts = << >>
             /\ query = NoQuery
             /\ pc = "responded"
             /\ response \in {leadIdRejection(LeadIdRequired),
                              leadIdRejection(LeadIdInvalid)}

\* a lead id of 101 allowed characters is rejected
C15_Witness ==
    /\ request.op = "evaluation"
    /\ request.user # ""
    /\ Len(request.param) = 101
    /\ \A i \in 1..Len(request.param) : request.param[i] \in LeadIdChars
    /\ response = leadIdRejection(LeadIdInvalid)

\* the name is listed among the sellers of the dashboard's answer
listedAs(nombre) ==
    \E j \in 1..Len(response.body.sellers) :
        response.body.sellers[j].nombre = nombre

\* C16: canonicalization is idempotent and the identity outside the alias
\* table: every name the dashboard lists (a canonicalized name) is its own
\* canonical name, and every visible seller whose stored name is no key of
\* the alias table is listed under its stored name
C16_CanonicalizationIdempotentIdentity ==
    DashboardAnswered =>
        /\ \A j \in 1..Len(response.body.sellers) :
               getUnifiedSellerName(response.body.sellers[j].nombre)
                   = response.body.sellers[j].nombre
        /\ \A k \in 1..Len(computed.filteredSellers) :
               computed.filteredSellers[k].nombre \notin DOMAIN SELLER_UNIFICATION
                   => listedAs(computed.filteredSellers[k].nombre)

\* the repaired text of the record the evaluation handler works on
repaired(e) == fixJsonString(e.calificacion)

\* C17: payload repair is idempotent: for every stored text the evaluation
\* handler repairs, repairing the repaired text again changes nothing, and
\* the text behind a parsed calificacion in the answer is a fixed point
C17_RepairIdempotent ==
    (EvaluationHandled /\ results # << >>) =>
        /\ fixJsonString(repaired(results[1])) = repaired(results[1])
        /\ response.status = 200 =>
               fixJsonString(response.body.calificacion.parsed)
                   = response.body.calificacion.parsed

\* a stored text the repair changed (a bare time quoted), answered parsed
C17_Witness ==
    /\ EvaluationHandled
    /\ results # << >>
    /\ response.status = 200
    /\ \E i \in 1..Len(results[1].calificacion) :
           BareTimeAt(stripLineBreaks(results[1].calificacion), i).to # 0
    /\ repaired(results[1]) # results[1].calificacion

\* C18: repairing a payload that already parses strictly is a no-op: the
\* repaired text is the stored text, it still parses, and the answer carries
\* the stored payload parsed (compact integers and quoted strings holding
\* colon-separated digit groups included)
C18_ValidPayloadUnchanged ==
    (EvaluationHandled /\ results # << >> /\ parses(results[1].calificacion)) =>
        /\ repaired(results[1]) = results[1].calificacion
        /\ response.status = 200
        /\ response.body.calificacion.parsed = results[1].calificacion

\* the source holds the evaluation, or the seller, the record was made from
heldBy(record, source) ==
    IF "lead_id" \in DOMAIN record
    THEN \E k \in 1..Len(source.evaluations) :
             /\ source.evaluations[k].lead_id = record.lead_id
             /\ source.evaluations[k].sellers_id = record.sellers_id
             /\ source.evaluations[k].fecha = record.fecha
    ELSE \E k \in 1..Len(source.sellers) :
             /\ source.sellers[k].id = record.id
             /\ source.sellers[k].nombre = record.nombre

\* the record carries the label of the source that produced it
labelled(record) ==
    \/ record.origen_bd = "Distrito Cafetero" /\ heldBy(record, db.main)
    \/ /\ record.origen_bd = "Big Center"
       /\ db.bigConfigured
       /\ heldBy(record, db.big)

\* the evaluation is in the lead list with the label the reader gave it
listedWithLabel(e) ==
    \E j \in 1..Len(response.body.leads) :
        /\ response.body.leads[j].lead_id = e.lead_id
        /\ response.body.leads[j].origen_bd = e.origen_bd

\* C19: every record the reader returns carries the label of the source that
\* produced it ('Distrito Cafetero' for the primary, 'Big Center' for the
\* secondary), and the label reaches unchanged every entry of the dashboard
\* lead list and every evaluation of seller detail and of evaluation detail
C19_OriginPreserved ==
    /\ \A k \in 1..Len(results) : labelled(results[k])
    /\ DashboardAnswered =>
           /\ \A j \in 1..Len(response.body.leads) : labelled(response.body.leads[j])
           /\ \A k \in 1..Len(computed.evaluations) :
                  listedWithLabel(computed.evaluations[k])
    /\ SellerAnswered =>
           \A k \in 1..Len(response.body.evaluations) :
               labelled(response.body.evaluations[k])
    /\ (EvaluationHandled /\ response.status = 200) => labelled(response.body)

\* a dashboard listing a lead of each source under a scope
C19_Witness ==
    /\ DashboardAnswered
    /\ routePermissions.present
    /\ \E j \in 1..Len(response.body.leads) :
           response.body.leads[j].origen_bd = "Big Center"
    /\ \E j \in 1..Len(response.body.leads) :
           response.body.leads[j].origen_bd = "Distrito Cafetero"

\* the row as the source returned it, before the reader labelled it
unlabelled(record) == [f \in DOMAIN record \ {"origen_bd"} |-> record[f]]

\* the rows of the merged sequence carrying the label, in their order
rowsLabelled(label) ==
    [k \in 1..Len(SelectSeq(results, LAMBDA r : r.origen_bd = label)) |->
        unlabelled(SelectSeq(results, LAMBDA r : r.origen_bd = label)[k])]

\* the secondary source answered the statement of this call
secondaryAnswered ==
    /\ contacts # << >>
    /\ contacts[Len(contacts)] = contact("big", "execute", TRUE)

\* C20: the sequence queryBothDatabases returns is the primary rows in the
\* primary's result order followed by the secondary rows in the secondary's
\* result order: no secondary row precedes a primary row and neither
\* source's order is changed
C20_MergedInSourceOrder ==
    pc = "returned" =>
        /\ \A i \in 1..Len(results) : \A j \in 1..Len(results) :
               (i < j /\ results[i].origen_bd = "Big Center")
                   => results[j].origen_bd = "Big Center"
        /\ rowsLabelled("Distrito Cafetero") = execute(db.main, query)
        /\ rowsLabelled("Big Center") =
               IF secondaryAnswered THEN execute(db.big, query) ELSE << >>

\* both sources answered the dashboard's statement with several rows each
C20_Witness ==
    /\ pc = "returned"
    /\ query.kind = "evals"
    /\ Len(rowsLabelled("Distrito Cafetero")) >= 2
    /\ Len(rowsLabelled("Big Center")) >= 2

\* C21: every request whose primary query succeeded eventually receives a
\* response, after any earlier requests and whatever the secondary source
\* does: once the primary rows are in and the secondary is due, the request
\* is eventually answered
C21_AnsweredOncePrimarySucceeds ==
    (pc = "big_connect") ~> (pc = "responded")

\* the day a date written YYYY-MM-DD names, as a number growing with time
dayNumber(fecha) ==
    DecimalValue(Slice(fecha, 1, 4)) * 10000
        + DecimalValue(Slice(fecha, 6, 7)) * 100
        + DecimalValue(Slice(fecha, 9, 10))

\* the entry of the lead list an evaluation gives
leadEntry(e) ==
    [lead_id |-> e.lead_id, seller_name |-> e.seller_name,
     sellers_id |-> e.sellers_id, fecha |-> e.fecha, origen_bd |-> e.origen_bd]

firstPassing(nombre) ==
    CHOOSE k \in 1..Len(computed.filteredSellers) :
        /\ canonical(computed.filteredSellers[k].nombre) = nombre
        /\ \A i \in 1..(k - 1) :
               canonical(computed.filteredSellers[i].nombre) # nombre

\* some passing seller has the canonical name
passesAs(nombre) ==
    \E k \in 1..Len(computed.filteredSellers) :
        canonical(computed.filteredSellers[k].nombre) = nombre

\* C23: the dashboard roster holds exactly one entry per canonical name among
\* the sellers of all sources that pass the visibility filter: no two entries
\* share a name, each entry shows a canonical name, never an alias spelling,
\* and its id is that of the first passing seller of that canonical name in
\* merged order
C23_RosterUnified ==
    DashboardAnswered =>
        /\ \A k \in 1..Len(computed.filteredSellers) :
               listedAs(canonical(computed.filteredSellers[k].nombre))
        /\ \A i \in 1..Len(response.body.sellers) :
               \A j \in 1..Len(response.body.sellers) :
                   response.body.sellers[i].nombre = response.body.sellers[j].nombre
                       => i = j
        /\ \A j \in 1..Len(response.body.sellers) :
               /\ response.body.sellers[j].nombre \notin DOMAIN SELLER_UNIFICATION
               /\ passesAs(response.body.sellers[j].nombre)
               /\ response.body.sellers[j].id =
                      computed.filteredSellers[
                          firstPassing(response.body.sellers[j].nombre)].id

\* the contact before the i-th one of the request is the given one
precededBy(i, c) == i > 1 /\ contacts[i - 1] = c

\* C24: within a call of queryBothDatabases the secondary source is contacted
\* only after the primary's query completed successfully: a secondary
\* connection is asked for right after a successful primary execute, the
\* secondary query runs right after its connection was obtained, nothing of
\* the primary is pending while the secondary is, and without a secondary
\* pool the secondary is never contacted
C24_SecondaryAfterPrimary ==
    /\ \A i \in 1..Len(contacts) :
           /\ (contacts[i].pool = "big" /\ contacts[i].call = "getConnection")
                  => precededBy(i, contact("main", "execute", TRUE))
           /\ (contacts[i].pool = "big" /\ contacts[i].call = "execute")
                  => precededBy(i, contact("big", "getConnection", TRUE))
           /\ contacts[i].pool = "big" => db.bigConfigured
    /\ pc \in {"big_connect", "big_execute"} =>
           /\ db.bigConfigured
           /\ contacts # << >>
           /\ contacts[Len(contacts)] \in {contact("main", "execute", TRUE),
                                           contact("big", "getConnection", TRUE)}

\* the secondary query of the second call of a dashboard request is pending
C24_Witness ==
    /\ pc = "big_execute"
    /\ query.kind = "sellers"
    /\ Len(contacts) = 3
    /\ contacts[1] = contact("main", "getConnection", TRUE)
    /\ contacts[Len(contacts)] = contact("big", "getConnection", TRUE)
    /\ contacts[Len(contacts) - 1] = contact("main", "execute", TRUE)

\* the characters of a text that are neither quotes nor white space
essence(s) == SelectSeq(s, LAMBDA c : c \notin {"\"", " ", "\t", "\r", "\n"})

\* a bare time H{1,2}:M{1,2}:S{1,2} follows the colon at index i of the text
bareTimeAfterColon(s, i) == BareTimeAt(s, i).to # 0

\* the text holds the token between double quotes right after a colon and a space
quotedIn(s, token) ==
    \E j \in 1..Len(s) :
        MatchesAt(s, j, <<":", " ", "\"">> \o token \o <<"\"">>)

\* the first bare time of the text, line breaks removed
firstBareTime(s) ==
    Slice(stripLineBreaks(s),
          BareTimeAt(stripLineBreaks(s),
                     CHOOSE i \in 1..Len(stripLineBreaks(s)) :
                         /\ bareTimeAfterColon(stripLineBreaks(s), i)
                         /\ \A k \in 1..(i - 1) :
                                ~bareTimeAfterColon(stripLineBreaks(s), k)).from,
          BareTimeAt(stripLineBreaks(s),
                     CHOOSE i \in 1..Len(stripLineBreaks(s)) :
                         /\ bareTimeAfterColon(stripLineBreaks(s), i)
                         /\ \A k \in 1..(i - 1) :
                                ~bareTimeAfterColon(stripLineBreaks(s), k)).to - 1)

\* C25: the repaired text of a non-empty text holds no carriage return and no
\* line feed, no bare time H{1,2}:M{1,2}:S{1,2} is left after a colon (the
\* times found are wrapped in double quotes), and nothing but quotes and
\* white space differs from the input, so boolean, null and integer values
\* keep their value; the empty text is returned unchanged
C25_RepairContract ==
    (EvaluationHandled /\ results # << >>) =>
        /\ results[1].calificacion = << >> => repaired(results[1]) = << >>
        /\ \A i \in 1..Len(repaired(results[1])) :
               /\ repaired(results[1])[i] \notin {"\r", "\n"}
               /\ ~bareTimeAfterColon(repaired(results[1]), i)
        /\ (\E i \in 1..Len(stripLineBreaks(results[1].calificacion)) :
               bareTimeAfterColon(stripLineBreaks(results[1].calificacion), i))
               => quotedIn(repaired(results[1]),
                           firstBareTime(results[1].calificacion))
        /\ essence(repaired(results[1])) = essence(results[1].calificacion)

\* a text with a line break and a bare time after a colon, repaired and parsed
C25_Witness ==
    /\ EvaluationHandled
    /\ results # << >>
    /\ response.status = 200
    /\ \E i \in 1..Len(results[1].calificacion) :
           results[1].calificacion[i] = "\n"
    /\ \E i \in 1..Len(stripLineBreaks(results[1].calificacion)) :
           bareTimeAfterColon(stripLineBreaks(results[1].calificacion), i)
    /\ quotedIn(repaired(results[1]), <<"1", ":", "2", ":", "3">>)

\* the seller's stored or canonical name is in the allow-list of the route
\* the user's account maps to
allowedForUser(user, nombre) ==
    \/ arrayIncludes(ROUTE_PERMISSIONS(getUserRoute(user)).allowedSellers, nombre)
    \/ arrayIncludes(ROUTE_PERMISSIONS(getUserRoute(user)).allowedSellers,
                     canonical(nombre))

\* every seller the answer shows is allowed for the user of the request
onlyAllowedData ==
    CASE request.op = "dashboard" ->
            /\ \A j \in 1..Len(response.body.leads) :
                   allowedForUser(request.user, response.body.leads[j].seller_name)
            /\ \A j \in 1..Len(response.body.topSellers) :
                   allowedForUser(request.user, response.body.topSellers[j].nombre)
            /\ \A j \in 1..Len(response.body.sellers) :
                   allowedForUser(request.user, response.body.sellers[j].nombre)
      [] request.op = "seller" ->
            \A j \in 1..Len(response.body.evaluations) :
                allowedForUser(request.user, response.body.evaluations[j].seller_name)
      [] request.op = "evaluation" ->
            allowedForUser(request.user, response.body.seller_name)
      [] OTHER -> TRUE

\* C26: scope enforcement is bound to the authenticated user: when the
\* user's account maps to a route, every successful dashboard, seller detail
\* and evaluation detail answer shows only sellers of that route's
\* allow-list, whatever x-route-path and referer the request carries
C26_ScopeBoundToUser ==
    (/\ pc = "responded"
     /\ response.status = 200
     /\ getUserRoute(request.user) # "") => onlyAllowedData

\* C27: every connection queryBothDatabases acquired is released before the
\* call returns or throws: whenever no call is under way, no connection of
\* either pool is held
C27_ConnectionsReleased ==
    pc \in {"idle", "returned", "responded"} => held = [main |-> 0, big |-> 0]

\* C28: with a scope present, every evaluation of a successful seller detail
\* answer belongs to a seller whose stored or canonical name is in the
\* allow-list, also when the requested id denotes different sellers in the
\* two sources
C28_SellerDetailWithinScope ==
    (SellerAnswered /\ routePermissions.present) =>
        \A j \in 1..Len(response.body.evaluations) :
            ~forbidden(response.body.evaluations[j].seller_name)

\* the roster of the answer lists a seller under the name
inRoster(nombre) ==
    \E j \in 1..Len(response.body.sellers) :
        response.body.sellers[j].nombre = nombre

\* C29: in every successful dashboard answer, every seller of the ranking
\* also appears, by canonical name, in the seller roster, also when the
\* secondary source answers the evaluations query and fails the sellers query
C29_RankedSellersInRoster ==
    DashboardAnswered =>
        \A j \in 1..Len(response.body.topSellers) :
            inRoster(response.body.topSellers[j].nombre)

\* the figures of the ranking's sellers, in the order of the ranking
rankedCounts == [j \in 1..Len(response.body.topSellers) |-> response.body.topSellers[j].count]

rankedScores == [j \in 1..Len(response.body.topSellers) |-> response.body.topSellers[j].totalScore]

rankedTimeCounts == [j \in 1..Len(response.body.topSellers) |-> response.body.topSellers[j].timeCount]

rankedTimes == [j \in 1..Len(response.body.topSellers) |-> response.body.topSellers[j].totalTime]

\* C30: in every dashboard answer the global and the per-seller figures
\* agree: totalLeads is the length of the lead list and the sum of the
\* sellers' counts, the global score sum is the sum of the sellers' score
\* sums, and the global duration count and sum are the sums of the sellers'
\* duration counts and sums
C30_TotalsAgree ==
    DashboardAnswered =>
        /\ response.body.stats.totalLeads = Len(response.body.leads)
        /\ response.body.stats.totalLeads = SumSeq(rankedCounts)
        /\ computed.totalLeads = response.body.stats.totalLeads
        /\ computed.totalScore = SumSeq(rankedScores)
        /\ computed.validTimeCount = SumSeq(rankedTimeCounts)
        /\ computed.totalResponseTime = SumSeq(rankedTimes)

\* two sellers ranked, three leads, one of them with a duration
C30_Witness ==
    /\ DashboardAnswered
    /\ Len(response.body.topSellers) >= 2
    /\ response.body.stats.totalLeads >= 3
    /\ computed.validTimeCount >= 1
    /\ \E j \in 1..Len(response.body.topSellers) :
           response.body.topSellers[j].count >= 2

====
